---- MODULE Spec2Model ----
(***************************************************************************)
(* yam: structural diff engine (internal/diff) and the editing session of *)
(* the tree viewer (internal/ui).                                         *)
(*                                                                         *)
(* SpecDiff models one run of diff.Compare on a pair of document trees.   *)
(* SpecEdit models the key-event loop of the editing session.             *)
(***************************************************************************)
EXTENDS Integers, Sequences, FiniteSets, TLC

VARIABLES
    \* one run of the diff command
    pc, left, right, result, exitCode,
    \* ui.Model: the document, the visible rows, the viewport
    tree, flatNodes, cursor, offset, height, filename,
    \* ui.Model: edit state, dirty state, undo/redo state
    editMode, editInput, editNode, originalValue,
    modified, modifiedNodes, statusMessage, undoStack, redoStack,
    \* ui.Model: search state
    searchMode, searchInput, matches, matchIndex,
    \* what the file named filename holds
    disk,
    \* observers of the session: the run of edits, undos and redos under
    \* way, and the scalar values the session started with
    run, start

diffVars == <<pc, left, right, result, exitCode>>

viewVars == <<tree, flatNodes, cursor, offset, height, filename, start>>

editVars == <<editMode, editInput, editNode, originalValue,
              modified, modifiedNodes, statusMessage, undoStack, redoStack>>

searchVars == <<searchMode, searchInput, matches, matchIndex>>

vars == <<diffVars, viewVars, editVars, searchVars, disk, run>>

----------------------------------------------------------------------------
(* Bounds of the document universe *)

\* largest number of nodes in one input tree (a Document wrapper not counted)
MaxNodes == 3

\* longest flat sequence of scalars among the inputs
MaxSeqLen == 3

\* longest run of consecutive edits the observer follows
MaxRun == 11

\* most undo and redo entries of a session on a document of several scalars
MaxWide == 4

\* most undo and redo entries of a session in which the file is saved
MaxSaveHistory == 3

\* most characters typed into the search input
MaxQueryLen == 2

\* most undo and redo entries of a session with every key in use
MaxSessionHistory == 1

\* mapping keys and scalar texts the input documents are built from
Keys == {"a", "b"}

Values == {"x", "y"}

----------------------------------------------------------------------------
(* parser.YamNode, as far as the diff engine reads it *)

KindDocument == "Document"

KindMapping == "Mapping"

KindSequence == "Sequence"

KindScalar == "Scalar"

KindAlias == "Alias"

\* a nil *YamNode
NilNode == [kind |-> "nil"]

\* one YamNode: Kind(), Value(), Key and Children
YamNode(kind, value, key, children) ==
    [kind |-> kind, value |-> value, key |-> key, children |-> children]

\* the same node owned by a mapping under key k (convertNode sets child.Key)
WithKey(n, k) == [n EXCEPT !.key = k]

\* all sequences of nodes whose sizes add up to m, each node drawn from
\* bySize[its size] and given a key from keys
RECURSIVE ChildSeqs(_, _, _)
ChildSeqs(m, bySize, keys) ==
    IF m = 0 THEN {<<>>}
    ELSE UNION { { <<WithKey(t, k)>> \o rest :
                     t \in bySize[s], k \in keys,
                     rest \in ChildSeqs(m - s, bySize, keys) } : s \in 1..m }

\* the trees of exactly n nodes, root key unset
RECURSIVE TreesOfSize(_)
TreesOfSize(n) ==
    IF n = 1
    THEN { YamNode(KindScalar, v, "", <<>>) : v \in Values }
         \cup { YamNode(KindAlias, v, "", <<>>) : v \in {"x"} }
         \cup { YamNode(KindMapping, "", "", <<>>),
                YamNode(KindSequence, "", "", <<>>) }
    ELSE LET bySize == [s \in 1..(n - 1) |-> TreesOfSize(s)]
         IN { YamNode(KindMapping, "", "", cs) : cs \in ChildSeqs(n - 1, bySize, Keys) }
            \cup
            { YamNode(KindSequence, "", "", cs) : cs \in ChildSeqs(n - 1, bySize, {""}) }

\* the sequences of exactly n scalars
RECURSIVE ScalarSeqs(_)
ScalarSeqs(n) ==
    IF n = 0 THEN {<<>>}
    ELSE { <<YamNode(KindScalar, v, "", <<>>)>> \o rest : v \in Values, rest \in ScalarSeqs(n - 1) }

\* the flat sequence documents of up to MaxSeqLen scalars
FlatSequences ==
    { YamNode(KindSequence, "", "", cs) : cs \in UNION { ScalarSeqs(n) : n \in 0..MaxSeqLen } }

Trees == UNION { TreesOfSize(n) : n \in 1..MaxNodes } \cup FlatSequences

\* what Compare can be handed: nil, a bare tree (the tests, diffui), or the
\* Document node the parser returns, with its single child or none
Inputs ==
    {NilNode} \cup Trees
    \cup { YamNode(KindDocument, "", "", <<t>>) : t \in Trees }
    \cup { YamNode(KindDocument, "", "", <<>>) }

\* scalar texts that differ in case, in trailing whitespace, or are empty
ScalarTexts == {"", "x", "X", "x ", "y"}

\* the names an alias node (*x, *y) carries as its text
AliasTexts == {"x", "y"}

\* the childless value nodes: a scalar of any text, an alias of any name
TextLeaves ==
    { YamNode(KindScalar, v, "", <<>>) : v \in ScalarTexts }
    \cup { YamNode(KindAlias, v, "", <<>>) : v \in AliasTexts }

\* a value node compared bare, as the child of a Document, under the key
\* "a" of a mapping, or as the one element of a sequence
TextInputs ==
    TextLeaves
    \cup { YamNode(KindDocument, "", "", <<t>>) : t \in TextLeaves }
    \cup { YamNode(KindMapping, "", "", <<WithKey(t, "a")>>) : t \in TextLeaves }
    \cup { YamNode(KindSequence, "", "", <<t>>) : t \in TextLeaves }

----------------------------------------------------------------------------
(* diff.DiffNode and diff.DiffSummary *)

DiffUnchanged == "Unchanged"

DiffAdded == "Added"

DiffRemoved == "Removed"

DiffModified == "Modified"

\* a nil *DiffNode
NilDiff == [type |-> "nil"]

DiffNode(l, r, type, children, path) ==
    [left |-> l, right |-> r, type |-> type, children |-> children, path |-> path]

DiffSummary(nAdded, nRemoved, nModified, nTotal) ==
    [added |-> nAdded, removed |-> nRemoved, modified |-> nModified, total |-> nTotal]

\* the DiffResult Compare returns (LeftFile, RightFile are set by the caller)
DiffResult(root, summary) == [root |-> root, summary |-> summary]

\* no Compare has run yet
NoResult == [root |-> NilDiff]

\* the process has not exited
NoExit == -1

----------------------------------------------------------------------------
(* diff.compareNodes *)

Digits == <<"0", "1", "2", "3", "4", "5", "6", "7", "8", "9">>

\* the %d of fmt.Sprintf printing the index counted from 1
Itoa_OneBased(i) == Digits[i + 2]

\* the %d of fmt.Sprintf: the decimal digits of i >= 0
RECURSIVE Itoa(_)
Itoa(i) == IF i < 10 THEN Digits[i + 1]
           ELSE Itoa(i \div 10) \o Digits[(i % 10) + 1]

\* leftByKey / rightByKey: a later child with the same key overwrites an
\* earlier one; a key no child has looks up as nil
ByKey(children, k) ==
    LET idx == { i \in 1..Len(children) : children[i].key = k }
    IN IF idx = {} THEN NilNode
       ELSE children[CHOOSE i \in idx : \A j \in idx : j <= i]

\* allKeys without the loop over rightByKey
AllKeys_LeftOnly(l, r) == { l.children[i].key : i \in 1..Len(l.children) }

\* allKeys without the loop over leftByKey
AllKeys_RightOnly(l, r) == { r.children[i].key : i \in 1..Len(r.children) }

\* allKeys: the keys of either side
AllKeys(l, r) ==
    { l.children[i].key : i \in 1..Len(l.children) }
    \cup { r.children[i].key : i \in 1..Len(r.children) }

\* every order in which the elements of S can be listed
RECURSIVE Orders(_)
Orders(S) ==
    IF S = {} THEN {<<>>}
    ELSE UNION { { <<k>> \o rest : rest \in Orders(S \ {k}) } : k \in S }

\* "for key := range allKeys": Go leaves the iteration order of a map
\* unspecified, so any order of the keys can come out
RangeOverMap(S) == Orders(S)

\* byte order of the key texts in use
KeyRank == [k \in Keys \cup {""} |->
              IF k = "" THEN 0 ELSE IF k = "a" THEN 1 ELSE IF k = "b" THEN 2 ELSE 3]

\* sort.Strings(allKeys): the keys in ascending order
SortStrings(S) ==
    { o \in Orders(S) :
        \A i \in 1..Len(o), j \in 1..Len(o) : i < j => KeyRank[o[i]] < KeyRank[o[j]] }

\* every way of picking one element from each set of the sequence
RECURSIVE Product(_)
Product(sets) ==
    IF sets = <<>> THEN {<<>>}
    ELSE { <<h>> \o t : h \in Head(sets), t \in Product(Tail(sets)) }

\* "if childDiff != nil { children = append(children, childDiff) }"
AppendNonNil(cs) == SelectSeq(cs, LAMBDA c : c # NilDiff)

\* hasChanges set for every appended child, whatever its type
HasChanges_AnyChild(cs) == Len(cs) > 0

\* hasChanges never set
HasChanges_Never(cs) == FALSE

\* hasChanges: some appended child is not Unchanged
HasChanges(cs) == \E i \in 1..Len(cs) : cs[i].type # DiffUnchanged

\* the container DiffNode marked Modified whatever its children are
ContainerDiff_AlwaysModified(l, r, cs, path) == DiffNode(l, r, DiffModified, cs, path)

\* the container DiffNode built from the compared children
ContainerDiff(l, r, cs, path) ==
    DiffNode(l, r, IF HasChanges(cs) THEN DiffModified ELSE DiffUnchanged, cs, path)

\* child i of a sequence, nil past its end (i counts from 0)
ChildAt(n, i) == IF i < Len(n.children) THEN n.children[i + 1] ELSE NilNode

\* maxLen left at len(left.Children)
MaxLen_LeftOnly(l, r) == Len(l.children)

\* maxLen taken as the shorter of the two children lists
MaxLen_Shorter(l, r) ==
    IF Len(r.children) < Len(l.children) THEN Len(r.children) ELSE Len(l.children)

\* maxLen: the longer of the two children lists
MaxLen(l, r) ==
    IF Len(r.children) > Len(l.children) THEN Len(r.children) ELSE Len(l.children)

\* the left == nil branch returning DiffRemoved
AddedNode_AsRemoved(r, path) == DiffNode(NilNode, r, DiffRemoved, <<>>, path)

\* left == nil: the node exists only on the right
AddedNode(r, path) == DiffNode(NilNode, r, DiffAdded, <<>>, path)

\* the right == nil branch listing each child of the removed node as a
\* Removed entry of its own
RemovedNode_Expanded(l, path) ==
    DiffNode(l, NilNode, DiffRemoved,
             [i \in 1..Len(l.children) |->
                 DiffNode(l.children[i], NilNode, DiffRemoved, <<>>, path)],
             path)

\* right == nil: the node exists only on the left
RemovedNode(l, path) == DiffNode(l, NilNode, DiffRemoved, <<>>, path)

\* strings.TrimSpace on the texts in use
TrimSpace(t) == IF t = "x " THEN "x" ELSE t

\* the scalar branch comparing the values with surrounding whitespace cut
ScalarDiff_TrimsSpace(l, r, path) ==
    DiffNode(l, r, IF TrimSpace(l.value) # TrimSpace(r.value) THEN DiffModified
                   ELSE DiffUnchanged, <<>>, path)

\* both sides Scalar: Modified when left.Value() != right.Value()
ScalarDiff(l, r, path) ==
    DiffNode(l, r, IF l.value # r.value THEN DiffModified ELSE DiffUnchanged, <<>>, path)

\* the type mismatch branch left out: the pair falls through to Unchanged
MismatchDiff_AsUnchanged(l, r, path) == DiffNode(l, r, DiffUnchanged, <<>>, path)

\* the two kinds differ: Modified, both nodes kept, no children
MismatchDiff(l, r, path) == DiffNode(l, r, DiffModified, <<>>, path)

\* the fallback for any other case: Unchanged
FallbackDiff(l, r, path) == DiffNode(l, r, DiffUnchanged, <<>>, path)

\* the Document branch passing nil for the child of a Document
DocumentChild_None(n) == NilNode

\* the first child of a Document, nil when it has none
DocumentChild(n) == IF Len(n.children) > 0 THEN n.children[1] ELSE NilNode

\* compareNodes(left, right, path): the DiffNodes the call can return, one
\* per iteration order of the mappings met on the way.  sorted selects the
\* revision that sorts the keys before visiting them.
RECURSIVE compareNodes(_, _, _, _)
compareNodes(l, r, path, sorted) ==
    IF l = NilNode /\ r = NilNode THEN {NilDiff}
    ELSE IF l = NilNode THEN {AddedNode(r, path)}
    ELSE IF r = NilNode THEN {RemovedNode(l, path)}
    ELSE IF l.kind = KindMapping /\ r.kind = KindMapping THEN
        LET allKeys == AllKeys(l, r)
            orders == IF sorted THEN SortStrings(allKeys) ELSE RangeOverMap(allKeys)
            perKey(o) == [i \in 1..Len(o) |->
                            compareNodes(ByKey(l.children, o[i]), ByKey(r.children, o[i]),
                                         path \o "." \o o[i], sorted)]
        IN UNION { { ContainerDiff(l, r, AppendNonNil(cs), path) : cs \in Product(perKey(o)) }
                   : o \in orders }
    ELSE IF l.kind = KindSequence /\ r.kind = KindSequence THEN
        LET perIndex == [i \in 1..MaxLen(l, r) |->
                           compareNodes(ChildAt(l, i - 1), ChildAt(r, i - 1),
                                        path \o "[" \o Itoa(i - 1) \o "]", sorted)]
        IN { ContainerDiff(l, r, AppendNonNil(cs), path) : cs \in Product(perIndex) }
    ELSE IF l.kind = KindScalar /\ r.kind = KindScalar THEN
        {ScalarDiff(l, r, path)}
    ELSE IF l.kind # r.kind THEN
        {MismatchDiff(l, r, path)}
    ELSE IF l.kind = KindDocument /\ r.kind = KindDocument THEN
        compareNodes(DocumentChild(l), DocumentChild(r), path, sorted)
    ELSE {FallbackDiff(l, r, path)}

----------------------------------------------------------------------------
(* diff.calculateSummary *)

\* walkDiffTree: the counters after walking node, starting from summary
RECURSIVE walkDiffTree(_, _)
walkDiffTree(node, summary) ==
    IF node = NilDiff THEN summary
    ELSE LET counted ==
                 IF node.type = DiffAdded THEN [summary EXCEPT !.added = @ + 1]
                 ELSE IF node.type = DiffRemoved THEN [summary EXCEPT !.removed = @ + 1]
                 ELSE IF node.type = DiffModified THEN [summary EXCEPT !.modified = @ + 1]
                 ELSE summary
             walkChildren[i \in 0..Len(node.children)] ==
                 IF i = 0 THEN counted
                 ELSE walkDiffTree(node.children[i], walkChildren[i - 1])
         IN walkChildren[Len(node.children)]

\* calculateSummary counting the root alone, its children not walked
calculateSummary_RootOnly(root) ==
    IF root = NilDiff THEN DiffSummary(0, 0, 0, 0)
    ELSE LET s == walkDiffTree([root EXCEPT !.children = <<>>], DiffSummary(0, 0, 0, 0))
         IN [s EXCEPT !.total = s.added + s.removed + s.modified]

\* calculateSummary: the counters of the whole tree and their total
calculateSummary(root) ==
    IF root = NilDiff THEN DiffSummary(0, 0, 0, 0)
    ELSE LET s == walkDiffTree(root, DiffSummary(0, 0, 0, 0))
         IN [s EXCEPT !.total = s.added + s.removed + s.modified]

\* diff.Compare: the results the call can return
CompareResults(l, r, sorted) ==
    IF l = NilNode /\ r = NilNode
    THEN {DiffResult(NilDiff, DiffSummary(0, 0, 0, 0))}
    ELSE { DiffResult(root, calculateSummary(root)) : root \in compareNodes(l, r, "$", sorted) }

----------------------------------------------------------------------------
(* One comparison *)

\* the diff command starts no session
NoSession ==
    /\ tree = <<>> /\ flatNodes = <<>> /\ cursor = 0 /\ offset = 0 /\ height = 0
    /\ filename = "" /\ start = <<>>
    /\ searchMode = FALSE /\ searchInput = <<>> /\ matches = <<>> /\ matchIndex = 0
    /\ disk = [complete |-> TRUE, values |-> <<>>]
    /\ editMode = FALSE /\ editInput = "" /\ editNode = 0 /\ originalValue = ""
    /\ modified = FALSE /\ modifiedNodes = {} /\ statusMessage = ""
    /\ undoStack = <<>> /\ redoStack = <<>>
    /\ run = [phase |-> "idle", n |-> 0, k |-> 0, base |-> <<>>, post |-> <<>>,
              nodes |-> <<>>]

InitDiff ==
    /\ pc = "start"
    /\ left \in Inputs
    /\ right \in Inputs
    /\ result = NoResult
    /\ exitCode = NoExit
    /\ NoSession

\* result := diff.Compare(left, right), keys visited as the map yields them
Compare ==
    /\ pc = "start"
    /\ result' \in CompareResults(left, right, FALSE)
    /\ pc' = "compared"
    /\ UNCHANGED <<left, right, exitCode, viewVars, editVars, searchVars, disk, run>>

\* the revision of Compare that sorts the keys of a mapping first
CompareSorted ==
    /\ pc = "start"
    /\ result' \in CompareResults(left, right, TRUE)
    /\ pc' = "compared"
    /\ UNCHANGED <<left, right, exitCode, viewVars, editVars, searchVars, disk, run>>

NextDiff == Compare

SpecDiff == InitDiff /\ [][NextDiff]_vars

\* two value nodes, bare or wrapped, are handed to Compare
InitTexts ==
    /\ pc = "start"
    /\ left \in TextInputs /\ right \in TextInputs
    /\ result = NoResult
    /\ exitCode = NoExit
    /\ NoSession

SpecTexts == InitTexts /\ [][NextDiff]_vars

NextDiffSorted == CompareSorted

SpecDiffSorted == InitDiff /\ [][NextDiffSorted]_vars

----------------------------------------------------------------------------
(* cmd: yam diff <file1> <file2> *)

\* a file parseFile returns an error for: it cannot be opened or parsed
Unreadable == [kind |-> "unreadable"]

\* what parseFile makes of the two files
FileInputs == TextInputs \cup {Unreadable}

\* how the interactive view ends: tea.Program.Run returns nil or an error
ViewOutcomes == {"quit", "error"}

\* os.Exit(1) of runDiff when the summary counts a difference
ExitOnDifferences == 1

\* os.Exit(1) of main when the command returns an error
ExitOnError == 1

InitCmd ==
    /\ pc = "start"
    /\ left \in FileInputs /\ right \in FileInputs
    /\ result = NoResult
    /\ exitCode = NoExit
    /\ NoSession

\* runDiff, and main on what it returns
RunDiff ==
    /\ pc = "start"
    /\ pc' = "exited"
    /\ IF left = Unreadable \/ right = Unreadable
       THEN /\ exitCode' = ExitOnError
            /\ UNCHANGED result
       ELSE /\ result' \in CompareResults(left, right, FALSE)
            /\ \E diffInteractive \in BOOLEAN, outcome \in ViewOutcomes :
                  exitCode' =
                      IF diffInteractive
                      THEN (IF outcome = "error" THEN ExitOnError ELSE 0)
                      ELSE IF result'.summary.total > 0 THEN ExitOnDifferences
                      ELSE 0
    /\ UNCHANGED <<left, right, viewVars, editVars, searchVars, disk, run>>

NextCmd == RunDiff

SpecCmd == InitCmd /\ [][NextCmd]_vars

----------------------------------------------------------------------------
(* ui.Model: the document of the session *)

\* maxUndoStackSize
maxUndoStackSize == 10

\* the texts a scalar holds and the user types into the edit input
EditTexts == {"a", "b"}

\* the file names a session is started with: a file, or piped input
FileNames == {"doc.yaml", "stdin"}

\* the height a WindowSizeMsg reports
WindowHeight == 24

\* a nil *YamNode in the session
NoNode == 0

\* the keys of the scalars of the session's document, in document order
ScalarKeys == <<"a", "b", "c", "d", "e", "f", "g", "h", "i", "j", "k">>

\* the scalars of the long document: one more than the undo stack holds
LongLen == maxUndoStackSize + 1

\* the parsed document {a: vals[1], b: vals[2], ...}: the Document node 1,
\* its mapping 2, the scalars 3.. ; each node with its links, Depth and fold
\* flag
Document(vals) ==
    [n \in 1..(2 + Len(vals)) |->
        [kind |-> IF n = 1 THEN KindDocument ELSE IF n = 2 THEN KindMapping ELSE KindScalar,
         key |-> IF n > 2 THEN ScalarKeys[n - 2] ELSE "",
         value |-> IF n > 2 THEN vals[n - 2] ELSE "",
         parent |-> IF n = 1 THEN NoNode ELSE IF n = 2 THEN 1 ELSE 2,
         children |-> IF n = 1 THEN <<2>>
                      ELSE IF n = 2 THEN [i \in 1..Len(vals) |-> 2 + i] ELSE <<>>,
         depth |-> IF n <= 2 THEN 0 ELSE 1,
         collapsed |-> FALSE]]

\* the documents a session is started on
Documents ==
    { Document(<<va>>) : va \in EditTexts }
    \cup { Document(<<va, vb>>) : va \in EditTexts, vb \in EditTexts }
    \cup { Document([i \in 1..LongLen |-> "a"]) }

\* the root NewModel is given
Root == 1

\* parser.WalkVisible with a collecting visitor: n, then the subtrees of its
\* children unless n is collapsed
RECURSIVE FlattenVisible(_, _)
FlattenVisible(t, n) ==
    LET below[i \in 0..Len(t[n].children)] ==
            IF i = 0 THEN <<>> ELSE below[i - 1] \o FlattenVisible(t, t[n].children[i])
    IN <<n>> \o (IF t[n].collapsed THEN <<>> ELSE below[Len(t[n].children)])

\* rebuildFlatList keeping the Document node as the first row
rebuildFlatList_KeepsDocument(t) == FlattenVisible(t, Root)

\* rebuildFlatList: the visible nodes, a leading Document node skipped
rebuildFlatList(t) ==
    LET all == FlattenVisible(t, Root)
    IN IF Len(all) > 0 /\ t[all[1]].kind = KindDocument THEN Tail(all) ELSE all

\* viewportHeight
viewportHeight(h) == h - 4

\* adjustOffset: the offset that keeps row c inside the viewport
adjustOffset(c, off, h) ==
    LET o1 == IF c < off THEN c ELSE off
    IN IF c >= o1 + viewportHeight(h) THEN c - viewportHeight(h) + 1 ELSE o1

\* the cursor moveCursor(delta) leaves: clamped into the visible rows
clampCursor(c, len) ==
    LET c1 == IF c < 0 THEN 0 ELSE c
    IN IF c1 >= len THEN len - 1 ELSE c1

\* the scalar texts of the document, node by node
ScalarValues(t) ==
    [n \in { m \in DOMAIN t : t[m].kind = KindScalar } |-> t[n].value]

----------------------------------------------------------------------------
(* The file of the session *)

\* the session reads piped input and has no file to write
ReadOnly(name) == name = "stdin" \/ name = "-"

\* Encode writing the values the document was loaded with
Encode_Stale(t) == [complete |-> TRUE, values |-> start]

\* yaml.Encoder.Encode of the raw tree, written in full: the file holds the
\* scalar values of the tree
Encode(t) == [complete |-> TRUE, values |-> ScalarValues(t)]

\* the file after os.Create when nothing, or only a part, was written after
Truncated == [complete |-> FALSE, values |-> <<>>]

\* no file: the input was piped
NoFile == [complete |-> TRUE, values |-> <<>>]

\* what the file holds when the session starts: the text the tree was
\* parsed from
FileOf(name, t) == IF ReadOnly(name) THEN NoFile ELSE Encode(t)

----------------------------------------------------------------------------
(* ui.Model: undo and redo *)

UndoEntry_Swapped(node, old, new) == [Node |-> node, OldValue |-> new, NewValue |-> old]

UndoEntry(node, old, new) == [Node |-> node, OldValue |-> old, NewValue |-> new]

\* pushUndo without the length check: nothing is ever dropped
pushUndo_Unbounded(stack, entry) == Append(stack, entry)

\* pushUndo dropping the entry just added when the stack is full
pushUndo_DropsNewest(stack, entry) ==
    IF Len(stack) + 1 > maxUndoStackSize THEN stack ELSE Append(stack, entry)

\* pushUndo: the undo stack after the append, its oldest entry dropped
\* once it holds more than maxUndoStackSize
pushUndo(stack, entry) ==
    LET s == Append(stack, entry)
    IN IF Len(s) > maxUndoStackSize THEN Tail(s) ELSE s

\* updateModifiedState: the nodes of the entries left on the undo stack
\* whose current value differs from the entry's OldValue
updateModifiedState(t, stack) ==
    { stack[i].Node : i \in { j \in 1..Len(stack) : t[stack[j].Node].value # stack[j].OldValue } }

----------------------------------------------------------------------------
(* The observer: a run is a stretch of consecutive confirmed edits that    *)
(* changed a value, then the undo calls that follow it, then the redo     *)
(* calls that follow those.                                               *)

NoRun == [phase |-> "idle", n |-> 0, k |-> 0, base |-> <<>>, post |-> <<>>, nodes |-> <<>>]

\* a confirmed edit changed the value of node; before holds the values
\* before it
RunAfterEdit(r, before, node) ==
    IF r.phase = "edit"
    THEN IF r.n < MaxRun THEN [r EXCEPT !.n = @ + 1, !.nodes = Append(@, node)] ELSE NoRun
    ELSE [phase |-> "edit", n |-> 1, k |-> 0, base |-> before, post |-> <<>>,
          nodes |-> <<node>>]

\* undo was called; before holds the values before the call
RunAfterUndo(r, before) ==
    IF r.phase = "edit" THEN [r EXCEPT !.phase = "undo", !.k = 1, !.post = before]
    ELSE IF r.phase = "undo" /\ r.k < r.n THEN [r EXCEPT !.k = @ + 1]
    ELSE NoRun

\* redo was called
RunAfterRedo(r) ==
    IF r.phase = "undo" /\ r.k = r.n THEN [r EXCEPT !.phase = "redo", !.k = 1]
    ELSE IF r.phase = "redo" /\ r.k < r.n THEN [r EXCEPT !.k = @ + 1]
    ELSE NoRun

----------------------------------------------------------------------------
(* The editing session: NewModel, then one action per message to Update *)

\* NewModel(root, filename, ...)
InitEdit ==
    /\ tree \in Documents
    /\ filename \in FileNames
    /\ start = ScalarValues(tree)
    /\ searchMode = FALSE /\ searchInput = <<>> /\ matches = <<>> /\ matchIndex = 0
    /\ disk = FileOf(filename, tree)
    /\ flatNodes = rebuildFlatList(tree)
    /\ cursor = 0 /\ offset = 0 /\ height = 0
    /\ editMode = FALSE /\ editInput = "" /\ editNode = NoNode /\ originalValue = ""
    /\ modified = FALSE /\ modifiedNodes = {} /\ statusMessage = ""
    /\ undoStack = <<>> /\ redoStack = <<>>
    /\ run = NoRun
    /\ pc = "session" /\ left = NilNode /\ right = NilNode /\ result = NoResult
    /\ exitCode = NoExit

\* the first message of the program has arrived: the window size
Sized == height > 0

\* the first scalar, in document order, that holds v; NoNode when none does
FirstHolding(t, v) ==
    LET S == { n \in DOMAIN ScalarValues(t) : t[n].value = v }
    IN IF S = {} THEN NoNode ELSE CHOOSE n \in S : \A m \in S : n <= m

\* when the user presses Edit: on a single scalar, without limit; in a
\* document of two scalars, only while the two stacks hold fewer than
\* MaxWide entries; in the long document, working down the list, only on
\* the first scalar that still holds "a"
WithinBudget ==
    LET scalars == Cardinality(DOMAIN ScalarValues(tree)) IN
    \/ scalars = 1
    \/ scalars = 2 /\ Len(undoStack) + Len(redoStack) < MaxWide
    \/ /\ scalars > 2
       /\ cursor >= 0 /\ cursor < Len(flatNodes)
       /\ flatNodes[cursor + 1] = FirstHolding(tree, "a")

\* tea.WindowSizeMsg
WindowSize ==
    /\ height' = WindowHeight
    /\ UNCHANGED <<diffVars, searchVars, disk, tree, flatNodes, cursor, offset, filename, start, editVars, run>>

\* moveCursor(delta), outside edit mode
MoveCursor(delta) ==
    /\ ~editMode /\ ~searchMode
    /\ statusMessage' = ""
    /\ cursor' = clampCursor(cursor + delta, Len(flatNodes))
    /\ offset' = adjustOffset(cursor', offset, height)
    /\ UNCHANGED <<diffVars, searchVars, disk, tree, flatNodes, height, filename, start, editMode, editInput,
                   editNode, originalValue, modified, modifiedNodes, undoStack,
                   redoStack, run>>

\* key Up
KeyUp == MoveCursor(-1)

\* key Down
KeyDown == MoveCursor(1)

\* key Edit: startEdit
KeyEdit ==
    /\ ~editMode /\ ~searchMode
    /\ IF cursor < 0 \/ cursor >= Len(flatNodes)
       THEN /\ statusMessage' = ""
            /\ UNCHANGED <<editMode, editNode, originalValue, editInput>>
       ELSE LET node == flatNodes[cursor + 1] IN
            IF tree[node].kind # KindScalar
            THEN /\ statusMessage' = "Cannot edit: not a scalar value"
                 /\ UNCHANGED <<editMode, editNode, originalValue, editInput>>
            ELSE IF filename = "stdin" \/ filename = "-"
            THEN /\ statusMessage' = "Cannot edit: read-only (stdin)"
                 /\ UNCHANGED <<editMode, editNode, originalValue, editInput>>
            ELSE /\ statusMessage' = ""
                 /\ editMode' = TRUE
                 /\ editNode' = node
                 /\ originalValue' = tree[node].value
                 /\ editInput' = tree[node].value
    /\ UNCHANGED <<diffVars, searchVars, disk, viewVars, modified, modifiedNodes, undoStack, redoStack, run>>

\* any other key in edit mode: the text input takes it and holds a new text
KeyTyped ==
    /\ editMode
    /\ statusMessage' = ""
    /\ \E text \in EditTexts : editInput' = text /\ text # editInput
    /\ UNCHANGED <<diffVars, searchVars, disk, viewVars, editMode, editNode, originalValue, modified,
                   modifiedNodes, undoStack, redoStack, run>>

\* key Esc in edit mode: the edit is cancelled
KeyEsc ==
    /\ editMode
    /\ statusMessage' = ""
    /\ editMode' = FALSE
    /\ editNode' = NoNode
    /\ UNCHANGED <<diffVars, searchVars, disk, viewVars, editInput, originalValue, modified,
                   modifiedNodes, undoStack, redoStack, run>>

\* key Enter in edit mode: confirmEdit
KeyEnter ==
    /\ editMode
    /\ statusMessage' = ""
    /\ IF editNode = NoNode
       THEN UNCHANGED <<tree, editMode, editNode, originalValue, modified,
                        modifiedNodes, undoStack, redoStack, run>>
       ELSE /\ IF editInput # originalValue
               THEN /\ undoStack' = pushUndo(undoStack,
                                             UndoEntry(editNode, originalValue, editInput))
                    /\ redoStack' = <<>>
                    /\ tree' = [tree EXCEPT ![editNode].value = editInput]
                    /\ modified' = TRUE
                    /\ modifiedNodes' = modifiedNodes \cup {editNode}
                    /\ run' = RunAfterEdit(run, ScalarValues(tree), editNode)
               ELSE UNCHANGED <<tree, modified, modifiedNodes, undoStack, redoStack, run>>
            /\ editMode' = FALSE
            /\ editNode' = NoNode
            /\ originalValue' = ""
    /\ UNCHANGED <<diffVars, searchVars, disk, flatNodes, cursor, offset, height, filename, start, editInput>>

\* key Undo: undo
KeyUndo ==
    /\ ~editMode /\ ~searchMode
    /\ IF Len(undoStack) = 0
       THEN /\ statusMessage' = "Nothing to undo"
            /\ UNCHANGED <<tree, undoStack, redoStack, modified, modifiedNodes>>
       ELSE LET entry == undoStack[Len(undoStack)] IN
            /\ undoStack' = SubSeq(undoStack, 1, Len(undoStack) - 1)
            /\ tree' = [tree EXCEPT ![entry.Node].value = entry.OldValue]
            /\ redoStack' = Append(redoStack, entry)
            /\ modifiedNodes' = updateModifiedState(tree', undoStack')
            /\ modified' = (modifiedNodes' # {})
            /\ statusMessage' = "Undo: restored value"
    /\ run' = RunAfterUndo(run, ScalarValues(tree))
    /\ UNCHANGED <<diffVars, searchVars, disk, flatNodes, cursor, offset, height, filename, start,
                   editMode, editInput, editNode, originalValue>>

\* key Redo: redo
KeyRedo ==
    /\ ~editMode /\ ~searchMode
    /\ IF Len(redoStack) = 0
       THEN /\ statusMessage' = "Nothing to redo"
            /\ UNCHANGED <<tree, undoStack, redoStack, modified, modifiedNodes>>
       ELSE LET entry == redoStack[Len(redoStack)] IN
            /\ redoStack' = SubSeq(redoStack, 1, Len(redoStack) - 1)
            /\ tree' = [tree EXCEPT ![entry.Node].value = entry.NewValue]
            /\ undoStack' = Append(undoStack, entry)
            /\ modified' = TRUE
            /\ modifiedNodes' = modifiedNodes \cup {entry.Node}
            /\ statusMessage' = "Redo: re-applied value"
    /\ run' = RunAfterRedo(run)
    /\ UNCHANGED <<diffVars, searchVars, disk, flatNodes, cursor, offset, height, filename, start,
                   editMode, editInput, editNode, originalValue>>

\* the messages of an editing session; the window size comes first
NextEdit ==
    \/ WindowSize
    \/ Sized /\ KeyUp
    \/ Sized /\ KeyDown
    \/ Sized /\ WithinBudget /\ KeyEdit
    \/ Sized /\ KeyTyped
    \/ Sized /\ KeyEsc
    \/ Sized /\ KeyEnter
    \/ Sized /\ KeyUndo
    \/ Sized /\ KeyRedo

SpecEdit == InitEdit /\ [][NextEdit]_vars

----------------------------------------------------------------------------
(* The editing session with its file: saveFile *)

\* what a call of saveFile that gets past its guards can meet: os.Create
\* fails; os.Create succeeds and Encode fails; both succeed
SaveOutcomes == {"create fails", "encode fails", "saved"}

\* saveFile calling os.Create before it looks at its guards
SaveRejected_AfterCreate(msg) ==
    /\ statusMessage' = msg
    /\ disk' = Truncated
    /\ UNCHANGED <<modified, modifiedNodes>>

\* saveFile returning at one of its guards: the status message only
SaveRejected(msg) ==
    /\ statusMessage' = msg
    /\ UNCHANGED <<disk, modified, modifiedNodes>>

\* key Save: saveFile
KeySave ==
    /\ ~editMode /\ ~searchMode
    /\ IF ReadOnly(filename)
       THEN SaveRejected("Cannot save: read-only (stdin)")
       ELSE IF ~modified /\ Cardinality(modifiedNodes) = 0
       THEN SaveRejected("No changes to save")
       ELSE \E outcome \in SaveOutcomes :
            IF outcome = "create fails"
            THEN /\ statusMessage' = "Error: open"
                 /\ UNCHANGED <<disk, modified, modifiedNodes>>
            ELSE IF outcome = "encode fails"
            THEN /\ disk' = Truncated
                 /\ statusMessage' = "Error: write"
                 /\ UNCHANGED <<modified, modifiedNodes>>
            ELSE /\ disk' = Encode(tree)
                 /\ modified' = FALSE
                 /\ modifiedNodes' = {}
                 /\ statusMessage' = "Saved!"
    /\ UNCHANGED <<diffVars, searchVars, viewVars, editMode, editInput, editNode,
                   originalValue, undoStack, redoStack, run>>

\* the documents of the sessions that save
SaveDocuments ==
    { Document(<<va>>) : va \in EditTexts } \cup { Document(<<"a", "b">>) }

\* NewModel on a document that will be saved
InitSave == InitEdit /\ tree \in SaveDocuments

\* the user starts an edit only while the two stacks hold fewer than
\* MaxSaveHistory entries
SaveBudget == Len(undoStack) + Len(redoStack) < MaxSaveHistory

NextSave ==
    \/ WindowSize
    \/ Sized /\ KeyUp
    \/ Sized /\ KeyDown
    \/ Sized /\ SaveBudget /\ KeyEdit
    \/ Sized /\ KeyTyped
    \/ Sized /\ KeyEsc
    \/ Sized /\ KeyEnter
    \/ Sized /\ KeyUndo
    \/ Sized /\ KeyRedo
    \/ Sized /\ KeySave

SpecSave == InitSave /\ [][NextSave]_vars

----------------------------------------------------------------------------
(* Reading a diff tree *)

\* the DiffNodes of the tree under d, in pre-order
RECURSIVE NodesOf(_)
NodesOf(d) ==
    IF d = NilDiff THEN <<>>
    ELSE LET below[i \in 0..Len(d.children)] ==
                 IF i = 0 THEN <<>> ELSE below[i - 1] \o NodesOf(d.children[i])
         IN <<d>> \o below[Len(d.children)]

\* how many DiffNodes under d have type t
CountOfType(d, t) ==
    LET ns == NodesOf(d) IN Cardinality({ i \in 1..Len(ns) : ns[i].type = t })

\* Compare has returned a diff tree
Compared == pc = "compared" /\ result.root # NilDiff

\* t holds mappings, sequences and scalars only
RECURSIVE IsPlain(_)
IsPlain(t) ==
    /\ t.kind \in {KindMapping, KindSequence, KindScalar}
    /\ \A i \in 1..Len(t.children) : IsPlain(t.children[i])

IsContainerKind(n) == n # NilNode /\ n.kind \in {KindMapping, KindSequence}

KeysOf(n) == { n.children[i].key : i \in 1..Len(n.children) }

\* the sequence s without its element at position p
RemoveAt(s, p) == [i \in 1..(Len(s) - 1) |-> IF i < p THEN s[i] ELSE s[i + 1]]

\* the key a child DiffNode of a mapping stands for
KeyOfDiff(d) == IF d.left # NilNode THEN d.left.key ELSE d.right.key

----------------------------------------------------------------------------
(* parser: building the YamNode tree *)

\* the depth convertNode leaves every child at
ChildDepth_Same(kind, depth) == depth

\* the depth convertNode and interfaceToNode pass down: the child of a
\* Document stays at the Document's depth, a member or element is one deeper
ChildDepth(kind, depth) == IF kind = KindDocument THEN depth ELSE depth + 1

\* the path passed down: the Document's own path to its child, the key to
\* a member of a mapping, strconv.Itoa(i) to element i of a sequence
ChildPath(raw, path, i) ==
    IF raw.kind = KindDocument THEN path
    ELSE IF raw.kind = KindMapping THEN Append(path, raw.children[i].key)
    ELSE Append(path, Itoa(i - 1))

\* convertNode(raw, parent, path, depth): the nodes under raw in the order
\* they are made, the node of raw first and numbered id, each with its
\* Parent, Children, Key, Path and Depth
RECURSIVE convertNode(_, _, _, _, _)
convertNode(raw, parent, path, depth, id) ==
    LET n == Len(raw.children)
        made[i \in 0..n] ==
            IF i = 0 THEN <<>>
            ELSE made[i - 1] \o convertNode(raw.children[i], id, ChildPath(raw, path, i),
                                            ChildDepth(raw.kind, depth),
                                            id + 1 + Len(made[i - 1]))
    IN << [kind |-> raw.kind, key |-> raw.key, value |-> raw.value,
           parent |-> parent, children |-> [i \in 1..n |-> id + 1 + Len(made[i - 1])],
           depth |-> depth, path |-> path, collapsed |-> FALSE] >>
       \o made[n]

\* the data json.Decoder makes of an object: one member per key, the last
\* of a repeated key, ranged over in any order; arrays keep their order
RECURSIVE Decoded(_)
Decoded(data) ==
    LET n == Len(data.children)
        members(o) == [i \in 1..Len(o) |-> Decoded(ByKey(data.children, o[i]))]
        elements == [i \in 1..n |-> Decoded(data.children[i])]
    IN IF data.kind = KindMapping
       THEN UNION { { [data EXCEPT !.children = cs] : cs \in Product(members(o)) } :
                      o \in RangeOverMap({ data.children[i].key : i \in 1..n }) }
       ELSE { [data EXCEPT !.children = cs] : cs \in Product(elements) }

\* the decoder hands over the content of a YAML document, or JSON data
\* (which has no alias)
InitParse ==
    /\ pc = "start"
    /\ left \in Trees
    /\ right = NilNode
    /\ result = NoResult
    /\ exitCode = NoExit
    /\ NoSession

\* Parser.Parse: convertNode on the Document node yaml.Decoder returns
Parse ==
    /\ pc = "start"
    /\ pc' = "parsed"
    /\ tree' = convertNode(YamNode(KindDocument, "", "", <<left>>), NoNode, <<>>, 0, Root)
    /\ UNCHANGED <<left, right, result, exitCode, flatNodes, cursor, offset, height,
                   filename, start, editVars, searchVars, disk, run>>

\* Parser.ParseJSON: interfaceToNode, which passes Parent, Path and Depth
\* down as convertNode does, on the decoded data at depth 0, then the
\* Document node wrapped around it
ParseJSON ==
    /\ pc = "start"
    /\ pc' = "parsed"
    /\ \A i \in 1..Len(convertNode(left, NoNode, <<>>, 0, Root)) :
          convertNode(left, NoNode, <<>>, 0, Root)[i].kind # KindAlias
    /\ \E data \in Decoded(left) :
          tree' = << [kind |-> KindDocument, key |-> "", value |-> "", parent |-> NoNode,
                      children |-> <<Root + 1>>, depth |-> 0, path |-> <<>>,
                      collapsed |-> FALSE] >>
                  \o [convertNode(data, NoNode, <<>>, 0, Root + 1) EXCEPT ![1].parent = Root]
    /\ UNCHANGED <<left, right, result, exitCode, flatNodes, cursor, offset, height,
                   filename, start, editVars, searchVars, disk, run>>

NextParse == Parse \/ ParseJSON

SpecParse == InitParse /\ [][NextParse]_vars

----------------------------------------------------------------------------
(* The document of the navigation sessions.  Its texts are sequences of    *)
(* characters, so that lower-casing and substring search work on them.    *)

\* the document
\*   Ab:
\*     b: [aB]
\*   c: B
\* as convertNode builds it: the Document 1, the top-level mapping 2 (both
\* at Depth 0), the mapping 3 under "Ab", the sequence 4 under "b", its
\* element 5 and the scalar 6 under "c"
NavDocument ==
    LET node(kind, key, value, parent, children, depth) ==
            [kind |-> kind, key |-> key, value |-> value, parent |-> parent,
             children |-> children, depth |-> depth, collapsed |-> FALSE]
    IN << node(KindDocument, <<>>, <<>>, NoNode, <<2>>, 0),
          node(KindMapping, <<>>, <<>>, 1, <<3, 6>>, 0),
          node(KindMapping, <<"A", "b">>, <<>>, 2, <<4>>, 1),
          node(KindSequence, <<"b">>, <<>>, 3, <<5>>, 2),
          node(KindScalar, <<>>, <<"a", "B">>, 4, <<>>, 3),
          node(KindScalar, <<"c">>, <<"B">>, 2, <<>>, 1) >>

\* how many nodes the subtree under n holds
RECURSIVE SubtreeSize(_, _)
SubtreeSize(t, n) ==
    LET sizes[i \in 0..Len(t[n].children)] ==
            IF i = 0 THEN 1 ELSE sizes[i - 1] + SubtreeSize(t, t[n].children[i])
    IN sizes[Len(t[n].children)]

\* parser.GetByPath handing the node n to ui.Run as the root: the displayed
\* tree is the subtree under n, renumbered from 1, every node with the
\* Depth it has in the whole document; the nodes above n are outside the
\* displayed tree
Subtree(t, n) ==
    [i \in 1..SubtreeSize(t, n) |->
        [t[i + n - 1] EXCEPT
            !.parent = IF i = 1 THEN NoNode ELSE @ - n + 1,
            !.children = [j \in 1..Len(@) |-> @[j] - n + 1]]]

\* the trees a navigation session is started on: the whole document, or the
\* subtree a path query (".Ab", ".Ab.b") selects, or the document
\*   e: []
\*   f: *x
\* of a container without children and an alias
NavTrees ==
    { NavDocument, Subtree(NavDocument, 3), Subtree(NavDocument, 4),
      convertNode(
          YamNode(KindDocument, <<>>, <<>>,
              << YamNode(KindMapping, <<>>, <<>>,
                     << YamNode(KindSequence, <<>>, <<"e">>, <<>>),
                        YamNode(KindAlias, <<"x">>, <<"f">>, <<>>) >>) >>),
          NoNode, <<>>, 0, Root) }

\* the characters the user types into the search input
QueryChars == {"a", "B"}

\* the heights a WindowSizeMsg reports in a navigation session
NavHeights == {3, 5, 6, 24}

----------------------------------------------------------------------------
(* ui.Model: folding *)

\* IsContainer
IsContainer(t, n) == t[n].kind \in {KindMapping, KindSequence, KindDocument}

\* HasChildren answering yes for every node
HasChildren_Always(t, n) == TRUE

\* HasChildren
HasChildren(t, n) == Len(t[n].children) > 0

\* parser.Flatten: every node under n in depth-first order
RECURSIVE Flatten(_, _)
Flatten(t, n) ==
    LET below[i \in 0..Len(t[n].children)] ==
            IF i = 0 THEN <<>> ELSE below[i - 1] \o Flatten(t, t[n].children[i])
    IN <<n>> \o below[Len(t[n].children)]

\* a Walk that expands the root and its children and stops there
ExpandedAll_TopOnly(t) ==
    [n \in DOMAIN t |->
        IF n = Root \/ t[n].parent = Root THEN [t[n] EXCEPT !.collapsed = FALSE]
        ELSE t[n]]

\* the tree after expandAll's Walk: no node collapsed
ExpandedAll(t) == [n \in DOMAIN t |-> [t[n] EXCEPT !.collapsed = FALSE]]

\* a Walk that also writes the value "a" into every scalar it passes
CollapsedAll_WritesValues(t) ==
    [n \in DOMAIN t |->
        IF IsContainer(t, n) /\ HasChildren(t, n) /\ t[n].depth > 0
        THEN [t[n] EXCEPT !.collapsed = TRUE]
        ELSE IF t[n].kind = KindScalar THEN [t[n] EXCEPT !.value = <<"a">>] ELSE t[n]]

\* the tree after collapseAll's Walk: every container with children and
\* Depth > 0 collapsed
CollapsedAll(t) ==
    [n \in DOMAIN t |->
        IF IsContainer(t, n) /\ HasChildren(t, n) /\ t[n].depth > 0
        THEN [t[n] EXCEPT !.collapsed = TRUE] ELSE t[n]]

----------------------------------------------------------------------------
(* ui.Model: search *)

\* unicode.ToLower on the characters in use
LowerOf(c) == IF c = "A" THEN "a" ELSE IF c = "B" THEN "b" ELSE c

\* strings.ToLower
ToLower(str) == [i \in 1..Len(str) |-> LowerOf(str[i])]

\* strings.Contains
Contains(str, sub) ==
    \E i \in 0..(Len(str) - Len(sub)) : SubSeq(str, i + 1, i + Len(sub)) = sub

\* the callback comparing the texts as they are, case and all
Matched_CaseSensitive(t, n, query) ==
    /\ t[n].kind # KindDocument
    /\ \/ Contains(t[n].key, query)
       \/ Contains(t[n].value, query)

\* the callback of search's Walk: a node other than a Document whose key,
\* or else whose value, holds the lower-cased query
Matched(t, n, query) ==
    /\ t[n].kind # KindDocument
    /\ \/ Contains(ToLower(t[n].key), ToLower(query))
       \/ Contains(ToLower(t[n].value), ToLower(query))

\* matchedNodes: the matched nodes of the whole tree in Walk order
MatchedNodes(t, query) ==
    SelectSeq(Flatten(t, Root), LAMBDA n : Matched(t, n, query))

\* the nodes above n, following Parent
RECURSIVE Ancestors(_, _)
Ancestors(t, n) ==
    IF t[n].parent = NoNode THEN {}
    ELSE {t[n].parent} \cup Ancestors(t, t[n].parent)

\* expandAncestors expanding the parent of every matched node only
ExpandAncestors_ParentOnly(t, ms) ==
    LET up == { t[ms[i]].parent : i \in 1..Len(ms) }
    IN [n \in DOMAIN t |-> IF n \in up THEN [t[n] EXCEPT !.collapsed = FALSE] ELSE t[n]]

\* expandAncestors for every matched node
ExpandAncestors(t, ms) ==
    LET up == UNION { Ancestors(t, ms[i]) : i \in 1..Len(ms) }
    IN [n \in DOMAIN t |-> IF n \in up THEN [t[n] EXCEPT !.collapsed = FALSE] ELSE t[n]]

\* the indices (from 0) of the rows of flat that hold a matched node
MatchIndices(flat, ms) ==
    LET hit(i) == \E j \in 1..Len(ms) : ms[j] = flat[i]
        upto[i \in 0..Len(flat)] ==
            IF i = 0 THEN <<>>
            ELSE IF hit(i) THEN Append(upto[i - 1], i - 1) ELSE upto[i - 1]
    IN upto[Len(flat)]

----------------------------------------------------------------------------
(* ui.Model: a session of navigation, folding and search *)

\* what a navigation key leaves alone: the file, the edit state, the diff
NavFrame ==
    UNCHANGED <<diffVars, disk, filename, start, editMode, editInput, editNode,
                originalValue, modified, modifiedNodes, undoStack, redoStack>>

\* the observer after a fold or search operation: which one it was, and
\* the visible list it started from
RunAfter(op) == [NoRun EXCEPT !.phase = op, !.nodes = flatNodes]

\* ui.Run on a tree, a path query applied or not; the input is piped
InitNav ==
    /\ tree \in NavTrees
    /\ filename = "stdin"
    /\ start = ScalarValues(tree)
    /\ searchMode = FALSE /\ searchInput = <<>> /\ matches = <<>> /\ matchIndex = 0
    /\ disk = FileOf(filename, tree)
    /\ flatNodes = rebuildFlatList(tree)
    /\ cursor = 0 /\ offset = 0 /\ height = 0
    /\ editMode = FALSE /\ editInput = "" /\ editNode = NoNode /\ originalValue = ""
    /\ modified = FALSE /\ modifiedNodes = {} /\ statusMessage = ""
    /\ undoStack = <<>> /\ redoStack = <<>>
    /\ run = NoRun
    /\ pc = "session" /\ left = NilNode /\ right = NilNode /\ result = NoResult
    /\ exitCode = NoExit

\* tea.WindowSizeMsg of a terminal of any of the heights
WindowResize ==
    /\ height' \in NavHeights
    /\ UNCHANGED <<diffVars, searchVars, disk, tree, flatNodes, cursor, offset,
                   filename, start, editVars, run>>

\* Go's integer division, truncating toward zero
GoDiv(a, b) == IF a >= 0 THEN a \div b ELSE -((-a) \div b)

\* key PageUp
KeyPageUp == MoveCursor(-viewportHeight(height))

\* key PageDown
KeyPageDown == MoveCursor(viewportHeight(height))

\* key HalfUp
KeyHalfUp == MoveCursor(GoDiv(-viewportHeight(height), 2))

\* key HalfDown
KeyHalfDown == MoveCursor(GoDiv(viewportHeight(height), 2))

\* key Top
KeyTop ==
    /\ ~editMode /\ ~searchMode
    /\ statusMessage' = ""
    /\ cursor' = 0
    /\ offset' = 0
    /\ NavFrame
    /\ UNCHANGED <<searchVars, tree, flatNodes, height, run>>

\* key Bottom
KeyBottom ==
    /\ ~editMode /\ ~searchMode
    /\ statusMessage' = ""
    /\ cursor' = Len(flatNodes) - 1
    /\ offset' = adjustOffset(cursor', offset, height)
    /\ NavFrame
    /\ UNCHANGED <<searchVars, tree, flatNodes, height, run>>

\* the cursor pulled back onto the last row of a list that got shorter
PullBack(c, len) == IF c >= len THEN len - 1 ELSE c

\* key Toggle: toggleCurrent
KeyToggle ==
    /\ ~editMode /\ ~searchMode
    /\ statusMessage' = ""
    /\ IF /\ cursor >= 0 /\ cursor < Len(flatNodes)
          /\ IsContainer(tree, flatNodes[cursor + 1])
          /\ HasChildren(tree, flatNodes[cursor + 1])
       THEN /\ tree' = [tree EXCEPT ![flatNodes[cursor + 1]].collapsed = ~@]
            /\ flatNodes' = rebuildFlatList(tree')
            /\ cursor' = PullBack(cursor, Len(flatNodes'))
            /\ run' = RunAfter("toggle")
       ELSE UNCHANGED <<tree, flatNodes, cursor, run>>
    /\ NavFrame
    /\ UNCHANGED <<searchVars, offset, height>>

\* key ExpandAll: expandAll
KeyExpandAll ==
    /\ ~editMode /\ ~searchMode
    /\ statusMessage' = ""
    /\ tree' = ExpandedAll(tree)
    /\ flatNodes' = rebuildFlatList(tree')
    /\ run' = RunAfter("expandAll")
    /\ NavFrame
    /\ UNCHANGED <<searchVars, cursor, offset, height>>

\* key CollapseAll: collapseAll
KeyCollapseAll ==
    /\ ~editMode /\ ~searchMode
    /\ statusMessage' = ""
    /\ tree' = CollapsedAll(tree)
    /\ flatNodes' = rebuildFlatList(tree')
    /\ cursor' = PullBack(cursor, Len(flatNodes'))
    /\ offset' = 0
    /\ run' = RunAfter("collapseAll")
    /\ NavFrame
    /\ UNCHANGED <<searchVars, height>>

\* key Search: the search input gets the focus, with the text it held
KeySearch ==
    /\ ~editMode /\ ~searchMode
    /\ statusMessage' = ""
    /\ searchMode' = TRUE
    /\ NavFrame
    /\ UNCHANGED <<searchInput, matches, matchIndex, tree, flatNodes, cursor,
                   offset, height, run>>

\* the texts one key leaves in the search input: a character more, the
\* last character less, or (a key that is no text) the same
SearchKeys(text) ==
    { Append(text, c) : c \in IF Len(text) < MaxQueryLen THEN QueryChars ELSE {} }
    \cup { SubSeq(text, 1, Len(text) - 1) : i \in IF Len(text) > 0 THEN {1} ELSE {} }
    \cup { text }

\* search(query)
search(query) ==
    IF query = <<>>
    THEN /\ matches' = <<>>
         /\ matchIndex' = 0
         /\ UNCHANGED <<tree, flatNodes>>
    ELSE LET matchedNodes == MatchedNodes(tree, query) IN
         /\ tree' = ExpandAncestors(tree, matchedNodes)
         /\ flatNodes' = rebuildFlatList(tree')
         /\ matches' = MatchIndices(flatNodes', matchedNodes)
         /\ matchIndex' = 0

\* a key in search mode other than Enter and Esc: the input takes it and
\* the search runs on the text it now holds
SearchTyped ==
    /\ ~editMode /\ searchMode
    /\ statusMessage' = ""
    /\ \E text \in SearchKeys(searchInput) :
          /\ searchInput' = text
          /\ search(text)
    /\ run' = RunAfter("search")
    /\ NavFrame
    /\ UNCHANGED <<searchMode, cursor, offset, height>>

\* Enter in search mode: jump to the first match
SearchEnter ==
    /\ ~editMode /\ searchMode
    /\ statusMessage' = ""
    /\ searchMode' = FALSE
    /\ IF Len(matches) > 0
       THEN /\ matchIndex' = 0
            /\ cursor' = matches[1]
            /\ offset' = adjustOffset(cursor', offset, height)
       ELSE UNCHANGED <<matchIndex, cursor, offset>>
    /\ run' = RunAfter("confirm")
    /\ NavFrame
    /\ UNCHANGED <<searchInput, matches, tree, flatNodes, height>>

\* Esc in search mode: clearSearch
SearchEsc ==
    /\ ~editMode /\ searchMode
    /\ statusMessage' = ""
    /\ searchMode' = FALSE
    /\ matches' = <<>>
    /\ matchIndex' = 0
    /\ searchInput' = <<>>
    /\ run' = RunAfter("cancel")
    /\ NavFrame
    /\ UNCHANGED <<tree, flatNodes, cursor, offset, height>>

\* the observer after nextMatch: how many times it has run since the last
\* fold, search or prevMatch operation, and the match the run started on;
\* a run that has gone once around the matches is followed by a new one
RunAfterNext(r) ==
    IF r.phase = "next" /\ r.n < Len(matches)
    THEN [r EXCEPT !.n = @ + 1]
    ELSE [NoRun EXCEPT !.phase = "next", !.n = 1, !.k = matchIndex]

\* the index nextMatch stays on at the last match instead of wrapping
nextIndex_Saturating(i, k) == IF i + 1 >= k THEN k - 1 ELSE i + 1

\* the index nextMatch moves to: (matchIndex + 1) % len(matches)
nextIndex(i, k) == (i + 1) % k

\* the index prevMatch moves to: matchIndex - 1, from 0 to the last one
prevIndex(i, k) == IF i - 1 < 0 THEN k - 1 ELSE i - 1

\* key NextMatch: nextMatch
KeyNextMatch ==
    /\ ~editMode /\ ~searchMode
    /\ statusMessage' = ""
    /\ IF Len(matches) = 0
       THEN UNCHANGED <<matchIndex, cursor, offset, run>>
       ELSE /\ matchIndex' = nextIndex(matchIndex, Len(matches))
            /\ cursor' = matches[matchIndex' + 1]
            /\ offset' = adjustOffset(cursor', offset, height)
            /\ run' = RunAfterNext(run)
    /\ NavFrame
    /\ UNCHANGED <<searchMode, searchInput, matches, tree, flatNodes, height>>

\* key PrevMatch: prevMatch
KeyPrevMatch ==
    /\ ~editMode /\ ~searchMode
    /\ statusMessage' = ""
    /\ IF Len(matches) = 0
       THEN UNCHANGED <<matchIndex, cursor, offset, run>>
       ELSE /\ matchIndex' = prevIndex(matchIndex, Len(matches))
            /\ cursor' = matches[matchIndex' + 1]
            /\ offset' = adjustOffset(cursor', offset, height)
            /\ run' = RunAfter("prev")
    /\ NavFrame
    /\ UNCHANGED <<searchMode, searchInput, matches, tree, flatNodes, height>>

\* the messages of a navigation session
NextNav ==
    \/ WindowResize
    \/ Sized /\ KeyUp
    \/ Sized /\ KeyDown
    \/ Sized /\ KeyPageUp
    \/ Sized /\ KeyPageDown
    \/ Sized /\ KeyHalfUp
    \/ Sized /\ KeyHalfDown
    \/ Sized /\ KeyTop
    \/ Sized /\ KeyBottom
    \/ Sized /\ KeyToggle
    \/ Sized /\ KeyExpandAll
    \/ Sized /\ KeyCollapseAll
    \/ Sized /\ KeySearch
    \/ Sized /\ SearchTyped
    \/ Sized /\ SearchEnter
    \/ Sized /\ SearchEsc
    \/ Sized /\ KeyNextMatch
    \/ Sized /\ KeyPrevMatch

SpecNav == InitNav /\ [][NextNav]_vars

----------------------------------------------------------------------------
(* ui.Model: a whole session, every key of Update that changes the model *)

\* the unsaved-changes warning of the Quit key
QuitWarning == "Unsaved changes! Press q again to quit, or Ctrl+S to save"

\* ui.Run on the file doc.yaml that holds
\*   b: [aB]
InitSession ==
    /\ tree = convertNode(
                  YamNode(KindDocument, <<>>, <<>>,
                      << YamNode(KindMapping, <<>>, <<>>,
                             << YamNode(KindSequence, <<>>, <<"b">>,
                                    << YamNode(KindScalar, <<"a", "B">>, <<>>, <<>>) >>) >>) >>),
                  NoNode, <<>>, 0, Root)
    /\ filename = "doc.yaml"
    /\ start = ScalarValues(tree)
    /\ searchMode = FALSE /\ searchInput = <<>> /\ matches = <<>> /\ matchIndex = 0
    /\ disk = FileOf(filename, tree)
    /\ flatNodes = rebuildFlatList(tree)
    /\ cursor = 0 /\ offset = 0 /\ height = 0
    /\ editMode = FALSE /\ editInput = "" /\ editNode = NoNode /\ originalValue = ""
    /\ modified = FALSE /\ modifiedNodes = {} /\ statusMessage = ""
    /\ undoStack = <<>> /\ redoStack = <<>>
    /\ run = NoRun
    /\ pc = "session" /\ left = NilNode /\ right = NilNode /\ result = NoResult
    /\ exitCode = NoExit

\* any other key in edit mode: the text input takes it and holds a new
\* text, here one of the one-letter texts the search can be typed for
EditTyped ==
    /\ editMode
    /\ statusMessage' = ""
    /\ \E c \in QueryChars : editInput' = <<c>> /\ editInput # <<c>>
    /\ UNCHANGED <<diffVars, searchVars, disk, viewVars, editMode, editNode, originalValue,
                   modified, modifiedNodes, undoStack, redoStack, run>>

\* key Quit: with unsaved changes the warning, and modified is cleared so
\* that the next Quit ends the program; without them tea.Quit
KeyQuit ==
    /\ ~editMode /\ ~searchMode
    /\ IF modified
       THEN /\ statusMessage' = QuitWarning
            /\ modified' = FALSE
            /\ pc' = pc
       ELSE /\ statusMessage' = ""
            /\ modified' = modified
            /\ pc' = "quit"
    /\ UNCHANGED <<left, right, result, exitCode, searchVars, disk, viewVars, editMode,
                   editInput, editNode, originalValue, modifiedNodes, undoStack,
                   redoStack, run>>

\* the messages of a session, until tea.Quit
NextSession ==
    \/ pc = "session" /\ WindowSize
    \/ pc = "session" /\ Sized /\ KeyUp
    \/ pc = "session" /\ Sized /\ KeyDown
    \/ pc = "session" /\ Sized /\ KeyTop
    \/ pc = "session" /\ Sized /\ KeyBottom
    \/ pc = "session" /\ Sized /\ KeyToggle
    \/ pc = "session" /\ Sized /\ KeyExpandAll
    \/ pc = "session" /\ Sized /\ KeyCollapseAll
    \/ pc = "session" /\ Sized /\ KeySearch
    \/ pc = "session" /\ Sized /\ SearchTyped
    \/ pc = "session" /\ Sized /\ SearchEnter
    \/ pc = "session" /\ Sized /\ SearchEsc
    \/ pc = "session" /\ Sized /\ KeyNextMatch
    \/ pc = "session" /\ Sized /\ KeyPrevMatch
    \/ pc = "session" /\ Sized /\ Len(undoStack) + Len(redoStack) < MaxSessionHistory /\ KeyEdit
    \/ pc = "session" /\ Sized /\ EditTyped
    \/ pc = "session" /\ Sized /\ KeyEsc
    \/ pc = "session" /\ Sized /\ KeyEnter
    \/ pc = "session" /\ Sized /\ KeyUndo
    \/ pc = "session" /\ Sized /\ KeyRedo
    \/ pc = "session" /\ Sized /\ KeySave
    \/ pc = "session" /\ Sized /\ KeyQuit

SpecSession == InitSession /\ [][NextSession]_vars

----------------------------------------------------------------------------
(* diffui.Model: the interactive diff view (internal/ui/diff).  cursor and *)
(* offset count rows from 0, as the code does; row i is flatNodes[i + 1].  *)

\* flattenDiffNodes and walkDiffTree: the DiffNodes in pre-order, those of
\* a Document (isDocumentNode) left out
RECURSIVE flattenDiffNodes(_)
flattenDiffNodes(node) ==
    IF node = NilDiff THEN <<>>
    ELSE LET isDocumentNode ==
                 \/ node.left # NilNode /\ node.left.kind = KindDocument
                 \/ node.right # NilNode /\ node.right.kind = KindDocument
             below[i \in 0..Len(node.children)] ==
                 IF i = 0 THEN <<>>
                 ELSE below[i - 1] \o flattenDiffNodes(node.children[i])
         IN (IF isDocumentNode THEN <<>> ELSE <<node>>)
            \o below[Len(node.children)]

\* viewportHeight of the diff view: header, footer, summary and help taken
\* off, never less than one row
diffViewportHeight(h) == IF h - 5 < 1 THEN 1 ELSE h - 5

\* adjustOffset of the diff view: the offset after the cursor was set to c
diffAdjustOffset(c, off, h) ==
    LET vh == diffViewportHeight(h)
        o1 == IF c < off THEN c ELSE off
    IN IF vh <= 0 THEN off
       ELSE IF c >= o1 + vh THEN c - vh + 1 ELSE o1

\* moveCursor of the diff view: the cursor after its three clamps
diffMoveCursor(c, delta, n) ==
    LET c1 == c + delta
        c2 == IF c1 < 0 THEN 0 ELSE c1
        c3 == IF c2 >= n THEN n - 1 ELSE c2
    IN IF c3 < 0 THEN 0 ELSE c3

\* NewModel of the diff view on the result of diff.Compare; the two files
\* parse to nothing, an empty document, or a document holding a sequence
\* of scalars
InitView ==
    /\ pc = "view"
    /\ LET ViewInputs ==
               {NilNode, YamNode(KindDocument, "", "", <<>>)}
               \cup { YamNode(KindDocument, "", "", <<t>>) : t \in FlatSequences }
       IN left \in ViewInputs /\ right \in ViewInputs
    /\ result \in CompareResults(left, right, FALSE)
    /\ exitCode = NoExit
    /\ flatNodes = flattenDiffNodes(result.root)
    /\ tree = <<>> /\ cursor = 0 /\ offset = 0 /\ height = 0
    /\ filename = "" /\ start = <<>>
    /\ searchMode = FALSE /\ searchInput = <<>> /\ matches = <<>> /\ matchIndex = 0
    /\ disk = [complete |-> TRUE, values |-> <<>>]
    /\ editMode = FALSE /\ editInput = "" /\ editNode = 0 /\ originalValue = ""
    /\ modified = FALSE /\ modifiedNodes = {} /\ statusMessage = ""
    /\ undoStack = <<>> /\ redoStack = <<>>
    /\ run = NoRun

\* tea.WindowSizeMsg: the height is stored, nothing else moves
ViewResize ==
    /\ \E h \in {0, 6, 7, 8} : height' = h /\ h # height
    /\ run' = [NoRun EXCEPT !.phase = "resize", !.n = cursor]
    /\ UNCHANGED <<diffVars, tree, flatNodes, cursor, offset, filename, start,
                   editVars, searchVars, disk>>

\* keys Up, Down, PageUp, PageDown: moveCursor by one row or one viewport
ViewMove ==
    /\ \E delta \in {-1, 1, -diffViewportHeight(height), diffViewportHeight(height)} :
         /\ cursor' = diffMoveCursor(cursor, delta, Len(flatNodes))
         /\ offset' = diffAdjustOffset(cursor', offset, height)
    /\ run' = [NoRun EXCEPT !.phase = "move", !.n = cursor]
    /\ UNCHANGED <<diffVars, tree, flatNodes, height, filename, start,
                   editVars, searchVars, disk>>

\* key Top
ViewTop ==
    /\ cursor' = 0
    /\ offset' = 0
    /\ run' = [NoRun EXCEPT !.phase = "top", !.n = cursor]
    /\ UNCHANGED <<diffVars, tree, flatNodes, height, filename, start,
                   editVars, searchVars, disk>>

\* key Bottom: nothing on an empty list
ViewBottom ==
    /\ IF Len(flatNodes) > 0
       THEN /\ cursor' = Len(flatNodes) - 1
            /\ offset' = diffAdjustOffset(cursor', offset, height)
       ELSE UNCHANGED <<cursor, offset>>
    /\ run' = [NoRun EXCEPT !.phase = "bottom", !.n = cursor]
    /\ UNCHANGED <<diffVars, tree, flatNodes, height, filename, start,
                   editVars, searchVars, disk>>

\* nextDiff going on from the first row when no changed row follows
ViewNextDiff_Wraps ==
    /\ LET after == { i \in (cursor + 1)..(Len(flatNodes) - 1) :
                        flatNodes[i + 1].type # DiffUnchanged }
           all == { i \in 0..(Len(flatNodes) - 1) :
                        flatNodes[i + 1].type # DiffUnchanged }
           found == IF after # {} THEN after ELSE all
       IN IF found = {}
          THEN UNCHANGED <<cursor, offset>>
          ELSE /\ cursor' = CHOOSE i \in found : \A j \in found : i <= j
               /\ offset' = diffAdjustOffset(cursor', offset, height)
    /\ run' = [NoRun EXCEPT !.phase = "nextDiff", !.n = cursor]
    /\ UNCHANGED <<diffVars, tree, flatNodes, height, filename, start,
                   editVars, searchVars, disk>>

\* key NextDiff: nextDiff, the loop from cursor + 1 to the last row that
\* stops at the first row whose type is not Unchanged
ViewNextDiff ==
    /\ LET found == { i \in (cursor + 1)..(Len(flatNodes) - 1) :
                        /\ flatNodes[i + 1].type # DiffUnchanged
                        /\ \A j \in (cursor + 1)..(i - 1) :
                             flatNodes[j + 1].type = DiffUnchanged }
       IN IF found = {}
          THEN UNCHANGED <<cursor, offset>>
          ELSE /\ cursor' \in found
               /\ offset' = diffAdjustOffset(cursor', offset, height)
    /\ run' = [NoRun EXCEPT !.phase = "nextDiff", !.n = cursor]
    /\ UNCHANGED <<diffVars, tree, flatNodes, height, filename, start,
                   editVars, searchVars, disk>>

\* key PrevDiff: prevDiff, the loop from cursor - 1 down to row 0 that
\* stops at the first row whose type is not Unchanged
ViewPrevDiff ==
    /\ LET found == { i \in 0..(cursor - 1) :
                        /\ flatNodes[i + 1].type # DiffUnchanged
                        /\ \A j \in (i + 1)..(cursor - 1) :
                             flatNodes[j + 1].type = DiffUnchanged }
       IN IF found = {}
          THEN UNCHANGED <<cursor, offset>>
          ELSE /\ cursor' \in found
               /\ offset' = diffAdjustOffset(cursor', offset, height)
    /\ run' = [NoRun EXCEPT !.phase = "prevDiff", !.n = cursor]
    /\ UNCHANGED <<diffVars, tree, flatNodes, height, filename, start,
                   editVars, searchVars, disk>>

NextView ==
    \/ ViewResize
    \/ ViewMove
    \/ ViewTop
    \/ ViewBottom
    \/ ViewNextDiff
    \/ ViewPrevDiff

SpecView == InitView /\ [][NextView]_vars

----------------------------------------------------------------------------
(* Claims about undo and redo *)

\* the run's edits have all been undone, one undo call per edit
RunUndone == run.phase = "undo" /\ run.k = run.n

\* the run's edits have all been undone and then redone, call for call
RunRedone == run.phase = "redo" /\ run.k = run.n

\* C1 as stated: after n confirmed edits that each changed a scalar and then
\* n undo calls, every scalar holds the value it had before the first edit;
\* after n redo calls more, every scalar holds the value it had after the
\* last edit. For any n.
C1_UndoRedoLaw ==
    /\ RunUndone => ScalarValues(tree) = run.base
    /\ RunRedone => ScalarValues(tree) = run.post

\* C1 amended: the undo/redo law holds for runs of at most maxUndoStackSize
\* edits: n edits then n undo calls restore every scalar to its value before
\* the first edit, and n redo calls more restore the values after the last.
C1_UndoRedoLawWithinStackSize ==
    /\ (RunUndone /\ run.n <= maxUndoStackSize) => ScalarValues(tree) = run.base
    /\ (RunRedone /\ run.n <= maxUndoStackSize) => ScalarValues(tree) = run.post

\* C1 witness: a run of maxUndoStackSize edits was undone and redone in full,
\* every entry of the run back on the undo stack
C1_Witness ==
    /\ RunRedone
    /\ run.n = maxUndoStackSize
    /\ Len(undoStack) = maxUndoStackSize /\ redoStack = <<>>
    /\ ScalarValues(tree) = run.post

\* the run's edits went to pairwise distinct nodes
DistinctNodes == Cardinality({ run.nodes[i] : i \in 1..Len(run.nodes) }) = Len(run.nodes)

\* the run had more than maxUndoStackSize edits, and undo has been called
\* maxUndoStackSize times or more since
LongRunUndone ==
    /\ run.phase = "undo"
    /\ run.n > maxUndoStackSize
    /\ run.k >= maxUndoStackSize

\* C18: the undo stack and the redo stack never hold more than
\* maxUndoStackSize (10) entries each; after more than 10 edits to distinct
\* nodes and 10 or more undo calls, the 10 most recently edited nodes are
\* back at their values before the edits, the nodes edited earlier keep
\* their edited values, and nothing is left to undo.
C18_UndoStackBound ==
    /\ Len(undoStack) <= maxUndoStackSize
    /\ Len(redoStack) <= maxUndoStackSize
    /\ (LongRunUndone /\ DistinctNodes) =>
          /\ undoStack = <<>>
          /\ \A i \in 1..run.n :
                tree[run.nodes[i]].value =
                    IF i <= run.n - maxUndoStackSize THEN run.post[run.nodes[i]]
                    ELSE run.base[run.nodes[i]]

\* C18 witness: eleven distinct scalars were edited one after the other and
\* undo was called eleven times; the undo stack was full on the way
C18_Witness ==
    /\ LongRunUndone /\ DistinctNodes
    /\ run.n = maxUndoStackSize + 1 /\ run.k = run.n
    /\ Len(redoStack) = maxUndoStackSize
    /\ statusMessage = "Nothing to undo"

----------------------------------------------------------------------------
(* Claims about the dirty state *)

\* the scalars that hold the value the session started with
AtStartValue == { n \in DOMAIN start : tree[n].value = start[n] }

\* undo has just restored a value
JustUndone == statusMessage = "Undo: restored value"

\* C19: after an undo, no node whose value is back at its session-start
\* value is in modifiedNodes, whatever edits were interleaved; after one
\* edit and its undo modifiedNodes is empty and modified is false.
C19_UndoClearsDirtyState ==
    JustUndone =>
        /\ modifiedNodes \cap AtStartValue = {}
        /\ (AtStartValue = DOMAIN start) => (modifiedNodes = {} /\ ~modified)

\* C20: every scalar whose value differs from its session-start value is in
\* modifiedNodes, and the session is then reported as modified.
C20_NoLostDirtiness ==
    pc = "session" =>
        /\ (DOMAIN start \ AtStartValue) \subseteq modifiedNodes
        /\ (AtStartValue # DOMAIN start) => modified

----------------------------------------------------------------------------
(* Claims about saving and rejected operations *)

\* the status messages of the operations that are turned down
Rejections ==
    {"Cannot edit: not a scalar value", "Cannot edit: read-only (stdin)",
     "Cannot save: read-only (stdin)", "No changes to save"}

\* C21: an edit started on a non-scalar node, an edit or a save in a
\* read-only (stdin) session, and a save with nothing changed set the status
\* message and nothing else: the document, the fold flags, the visible rows,
\* the cursor, the edit state, the two stacks, the dirty state and the file
\* stay as they were; the session then still takes a key.
C21_RejectedOperationsChangeNothing ==
    /\ [][statusMessage' \in Rejections =>
             UNCHANGED <<tree, flatNodes, cursor, offset, height, filename,
                         editMode, editInput, editNode, originalValue,
                         modified, modifiedNodes, undoStack, redoStack,
                         searchVars, disk>>]_vars
    /\ [](statusMessage \in Rejections => ENABLED (KeyDown \/ KeySave))

\* C21 witness: with edits on both stacks and unsaved changes, an edit was
\* refused on the mapping row
C21_Witness ==
    /\ statusMessage = "Cannot edit: not a scalar value"
    /\ modified /\ modifiedNodes # {}
    /\ undoStack # <<>> /\ redoStack # <<>>

\* C22: a save that succeeds writes the file with the current value of every
\* scalar, sets modified to false and empties modifiedNodes, and leaves the
\* document, the undo stack and the redo stack as they were, so that undo
\* and redo are still to be had.
C22_SuccessfulSave ==
    /\ [][statusMessage' = "Saved!" =>
             /\ disk' = [complete |-> TRUE,
                         values |-> [n \in DOMAIN start |-> tree[n].value]]
             /\ modified' = FALSE /\ modifiedNodes' = {}
             /\ UNCHANGED <<tree, undoStack, redoStack>>]_vars
    /\ []((statusMessage = "Saved!" /\ undoStack # <<>>) => ENABLED KeyUndo)
    /\ []((statusMessage = "Saved!" /\ redoStack # <<>>) => ENABLED KeyRedo)

\* C22 witness: a save succeeded with entries on both stacks and wrote
\* values other than those the session started with
C22_Witness ==
    /\ statusMessage = "Saved!"
    /\ undoStack # <<>> /\ redoStack # <<>>
    /\ disk.complete /\ disk.values # start
    /\ ~modified /\ modifiedNodes = {}

\* the status messages of a save that failed
SaveErrors == {"Error: open", "Error: write"}

\* C23: after a save attempt the file holds its prior content or the
\* complete serialization of the current tree; when the save fails the file,
\* the values in memory and the dirty state are as they were before.
C23_SaveAllOrNothing ==
    /\ [][\/ disk' = disk
          \/ disk' = [complete |-> TRUE,
                      values |-> [n \in DOMAIN start |-> tree'[n].value]]]_vars
    /\ [][statusMessage' \in SaveErrors =>
             UNCHANGED <<disk, tree, modified, modifiedNodes>>]_vars

----------------------------------------------------------------------------
(* Claims about Compare *)

\* C2: comparing a tree of mappings, sequences and scalars with an identical
\* copy gives a root of type Unchanged and an all-zero summary.
C2_IdenticalTreesUnchanged ==
    (pc = "compared" /\ left # NilNode /\ left = right /\ IsPlain(left))
        => /\ result.root # NilDiff
           /\ result.root.type = DiffUnchanged
           /\ result.summary = DiffSummary(0, 0, 0, 0)

\* C2 witness: a nested tree holding an empty container was compared with its copy
C2_Witness ==
    /\ pc = "compared" /\ left = right /\ left # NilNode /\ IsPlain(left)
    /\ left.kind = KindMapping
    /\ \E i \in 1..Len(left.children) :
          /\ left.children[i].kind = KindSequence
          /\ left.children[i].children = <<>>
    /\ \E i \in 1..Len(left.children) : left.children[i].kind = KindScalar
    /\ result.summary.total = 0

\* C3: every DiffNode of a result has a side present, is Added exactly when
\* its left side is absent and Removed exactly when its right side is absent.
C3_AddedRemovedIffAbsent ==
    pc = "compared" =>
        LET ns == NodesOf(result.root)
        IN \A i \in 1..Len(ns) :
              /\ ns[i].left # NilNode \/ ns[i].right # NilNode
              /\ ns[i].type = DiffAdded <=> ns[i].left = NilNode
              /\ ns[i].type = DiffRemoved <=> ns[i].right = NilNode

\* C3 witness: one diff tree holds an Added and a Removed node below its root
C3_Witness ==
    /\ Compared
    /\ \E i \in 1..Len(result.root.children) :
          /\ result.root.children[i].type = DiffAdded
          /\ result.root.children[i].left = NilNode
    /\ \E i \in 1..Len(result.root.children) :
          /\ result.root.children[i].type = DiffRemoved
          /\ result.root.children[i].right = NilNode

\* C4: the summary counts every DiffNode of the tree by its type, containers
\* included, and total is the sum of the three counters.
C4_SummaryCountsEveryNode ==
    pc = "compared" =>
        /\ result.summary.added = CountOfType(result.root, DiffAdded)
        /\ result.summary.removed = CountOfType(result.root, DiffRemoved)
        /\ result.summary.modified = CountOfType(result.root, DiffModified)
        /\ result.summary.total =
              result.summary.added + result.summary.removed + result.summary.modified

\* C4 witness: a Modified container above an Added, a Removed and nothing else
C4_Witness ==
    /\ Compared
    /\ Len(result.root.children) = 2
    /\ result.summary = DiffSummary(1, 1, 1, 3)

\* both sides of d are present and are mappings
BothMappings(d) ==
    /\ d.left # NilNode /\ d.right # NilNode
    /\ d.left.kind = KindMapping /\ d.right.kind = KindMapping

\* both sides of d are present and are sequences
BothSequences(d) ==
    /\ d.left # NilNode /\ d.right # NilNode
    /\ d.left.kind = KindSequence /\ d.right.kind = KindSequence

\* the positions of the children of d that are not Unchanged
ChangedChildren(d) == { i \in 1..Len(d.children) : d.children[i].type # DiffUnchanged }

\* the root compares two mappings with the same keys and exactly one of its
\* children, present on both sides, is not Unchanged
OneChangedChild(d) ==
    /\ BothMappings(d)
    /\ KeysOf(d.left) = KeysOf(d.right)
    /\ Cardinality(ChangedChildren(d)) = 1
    /\ \A i \in ChangedChildren(d) :
          d.children[i].left # NilNode /\ d.children[i].right # NilNode

\* C5 as stated: one changed child among the children of the compared
\* mappings gives summary.modified = 2, whatever the changed child is.
C5_OneChangedChildCountsTwo ==
    (Compared /\ OneChangedChild(result.root)) => result.summary.modified = 2

\* C5 as amended: with one changed child, summary.modified is 1 (the parent)
\* plus the Modified nodes of the changed child's subtree, which makes 2 when
\* the changed child has no Modified node below it.
C5_OneChangedChildCountsParentPlusSubtree ==
    (Compared /\ OneChangedChild(result.root)) =>
        \A i \in ChangedChildren(result.root) :
            LET c == result.root.children[i]
                below == CountOfType(c, DiffModified) - 1
            IN /\ c.type = DiffModified
               /\ result.summary.modified = 2 + below
               /\ (\A j \in 1..Len(c.children) :
                      CountOfType(c.children[j], DiffModified) = 0)
                    => result.summary.modified = 2

\* C5 witness: two keys, one scalar changed, the other unchanged
C5_Witness ==
    /\ Compared /\ OneChangedChild(result.root)
    /\ Len(result.root.children) = 2
    /\ \A i \in 1..2 : result.root.children[i].left.kind = KindScalar
    /\ \A i \in 1..2 : result.root.children[i].right.kind = KindScalar
    /\ result.summary.modified = 2

\* big is the mapping small with one more child, under a key small lacks
PlusOneKey(small, big) ==
    /\ small # NilNode /\ big # NilNode
    /\ small.kind = KindMapping /\ big.kind = KindMapping
    /\ \E p \in 1..Len(big.children) :
          /\ RemoveAt(big.children, p) = small.children
          /\ big.children[p].key \notin KeysOf(small)

\* the key big has and small lacks
ExtraKey(small, big) == CHOOSE k \in KeysOf(big) : k \notin KeysOf(small)

\* C6: a mapping against the same mapping plus one key gives a Modified root,
\* exactly one Added child, carrying the new key on its right side, and the
\* summary {1, 0, 1, 2}; with the sides swapped one Removed child and {0, 1, 1, 2}.
C6_OneKeyAddedOrRemoved ==
    Compared =>
        LET d == result.root
            added == { i \in 1..Len(d.children) : d.children[i].type = DiffAdded }
            removed == { i \in 1..Len(d.children) : d.children[i].type = DiffRemoved }
        IN /\ PlusOneKey(d.left, d.right) =>
                 /\ d.type = DiffModified
                 /\ Cardinality(added) = 1
                 /\ \A i \in added : d.children[i].right.key = ExtraKey(d.left, d.right)
                 /\ result.summary = DiffSummary(1, 0, 1, 2)
           /\ PlusOneKey(d.right, d.left) =>
                 /\ d.type = DiffModified
                 /\ Cardinality(removed) = 1
                 /\ \A i \in removed : d.children[i].left.key = ExtraKey(d.right, d.left)
                 /\ result.summary = DiffSummary(0, 1, 1, 2)

\* C6 witness: the right side has the key of the left side and one more,
\* which holds a container
C6_Witness ==
    /\ Compared /\ PlusOneKey(result.root.left, result.root.right)
    /\ Len(result.root.left.children) = 1
    /\ \E i \in 1..Len(result.root.children) :
          /\ result.root.children[i].type = DiffAdded
          /\ result.root.children[i].right.kind = KindMapping
    /\ result.summary = DiffSummary(1, 0, 1, 2)

\* long is the sequence short with one more element at its end
PlusOneElement(short, long) ==
    /\ short # NilNode /\ long # NilNode
    /\ short.kind = KindSequence /\ long.kind = KindSequence
    /\ Len(long.children) = Len(short.children) + 1
    /\ SubSeq(long.children, 1, Len(short.children)) = short.children

\* the path of element n of the top-level sequence
RootIndexPath == <<"$[0]", "$[1]", "$[2]", "$[3]", "$[4]", "$[5]">>

\* C7: a sequence of n elements against the same sequence with one more
\* trailing element gives a Modified root, children[n] Added at path "$[n]"
\* and the summary {1, 0, 1, 2}; swapped, Removed and {0, 1, 1, 2}.
C7_TrailingElement ==
    Compared =>
        LET d == result.root IN
        /\ PlusOneElement(d.left, d.right) =>
              LET n == Len(d.left.children) IN
              /\ d.type = DiffModified
              /\ Len(d.children) = n + 1
              /\ d.children[n + 1].type = DiffAdded
              /\ d.children[n + 1].path = RootIndexPath[n + 1]
              /\ result.summary = DiffSummary(1, 0, 1, 2)
        /\ PlusOneElement(d.right, d.left) =>
              LET n == Len(d.right.children) IN
              /\ d.type = DiffModified
              /\ Len(d.children) = n + 1
              /\ d.children[n + 1].type = DiffRemoved
              /\ d.children[n + 1].path = RootIndexPath[n + 1]
              /\ result.summary = DiffSummary(0, 1, 1, 2)

\* C7 witness: a sequence of two elements was extended by a third
C7_Witness ==
    /\ Compared /\ PlusOneElement(result.root.left, result.root.right)
    /\ Len(result.root.left.children) = 2
    /\ result.root.children[3].path = "$[2]"
    /\ result.summary.added = 1

\* C8: a DiffNode of two mappings has exactly one child per key of either
\* side, and the child for key k pairs the left child under k (absent if the
\* left side lacks k) with the right child under k (absent likewise).
C8_OneChildPerKey ==
    pc = "compared" =>
        LET ns == NodesOf(result.root) IN
        \A n \in 1..Len(ns) :
            BothMappings(ns[n]) =>
                LET d == ns[n]
                    union == KeysOf(d.left) \cup KeysOf(d.right)
                IN /\ Len(d.children) = Cardinality(union)
                   /\ \A k \in union :
                         /\ Cardinality({ i \in 1..Len(d.children) :
                                            KeyOfDiff(d.children[i]) = k }) = 1
                         /\ \A i \in 1..Len(d.children) :
                               KeyOfDiff(d.children[i]) = k =>
                                  LET c == d.children[i] IN
                                  /\ IF k \in KeysOf(d.left)
                                     THEN /\ c.left # NilNode /\ c.left.key = k
                                          /\ \E j \in 1..Len(d.left.children) :
                                                d.left.children[j] = c.left
                                     ELSE c.left = NilNode
                                  /\ IF k \in KeysOf(d.right)
                                     THEN /\ c.right # NilNode /\ c.right.key = k
                                          /\ \E j \in 1..Len(d.right.children) :
                                                d.right.children[j] = c.right
                                     ELSE c.right = NilNode

\* C8 witness: the sides share no key, so the union has a key from each
C8_Witness ==
    /\ Compared /\ BothMappings(result.root)
    /\ KeysOf(result.root.left) = {"a"}
    /\ KeysOf(result.root.right) = {"b"}
    /\ Len(result.root.right.children) = 2
    /\ Len(result.root.children) = 2

\* C9: the children of every mapping DiffNode are in ascending order of
\* their keys, whatever the order of the keys in the inputs.
C9_ChildrenInKeyOrder ==
    pc = "compared" =>
        LET ns == NodesOf(result.root) IN
        \A n \in 1..Len(ns) :
            BothMappings(ns[n]) =>
                \A i \in 1..Len(ns[n].children), j \in 1..Len(ns[n].children) :
                    i < j => KeyRank[KeyOfDiff(ns[n].children[i])]
                               < KeyRank[KeyOfDiff(ns[n].children[j])]

\* C10, first part: a DiffNode of two sequences has max(len) children and
\* child i pairs left element i with right element i, absent past the end.
PositionalAlignment ==
    pc = "compared" =>
        LET ns == NodesOf(result.root) IN
        \A n \in 1..Len(ns) :
            BothSequences(ns[n]) =>
                LET d == ns[n]
                    ll == Len(d.left.children)
                    lr == Len(d.right.children)
                IN /\ Len(d.children) = IF ll > lr THEN ll ELSE lr
                   /\ \A i \in 1..Len(d.children) :
                         /\ d.children[i].left =
                               IF i <= ll THEN d.left.children[i] ELSE NilNode
                         /\ d.children[i].right =
                               IF i <= lr THEN d.right.children[i] ELSE NilNode

\* the elements of s are scalars with pairwise different values
DistinctScalars(s) ==
    /\ \A i \in 1..Len(s.children) : s.children[i].kind = KindScalar
    /\ \A i \in 1..Len(s.children), j \in 1..Len(s.children) :
          i # j => s.children[i].value # s.children[j].value

\* long is the sequence short with one element put before its first
HeadInsertion(short, long) ==
    /\ short # NilNode /\ long # NilNode
    /\ short.kind = KindSequence /\ long.kind = KindSequence
    /\ DistinctScalars(short)
    /\ Len(long.children) = Len(short.children) + 1
    /\ Tail(long.children) = short.children

\* the only child of d that is not Unchanged is one Added child
SingleAddedEntry(d) ==
    /\ Cardinality(ChangedChildren(d)) = 1
    /\ \A i \in ChangedChildren(d) : d.children[i].type = DiffAdded

\* C10 as stated: alignment is positional, and an insertion at the head of
\* a sequence of pairwise-distinct scalars shows as Modified entries at the
\* shifted positions plus a trailing Added entry, never as one Added entry.
C10_HeadInsertionNeverSingleAdded ==
    /\ PositionalAlignment
    /\ (Compared /\ HeadInsertion(result.root.left, result.root.right)) =>
          LET d == result.root
              n == Len(d.left.children)
          IN /\ \A i \in 2..n : d.children[i].type = DiffModified
             /\ d.children[n + 1].type = DiffAdded
             /\ ~SingleAddedEntry(d)

\* C10 as amended: the same, the last part only for a non-empty sequence
\* whose new head differs from its old first element; then every old
\* position is Modified.
C10_HeadInsertionCascade ==
    /\ PositionalAlignment
    /\ (Compared /\ HeadInsertion(result.root.left, result.root.right)) =>
          LET d == result.root
              n == Len(d.left.children)
          IN /\ \A i \in 2..n : d.children[i].type = DiffModified
             /\ d.children[n + 1].type = DiffAdded
             /\ (n >= 1 /\ d.right.children[1] # d.left.children[1]) =>
                   /\ \A i \in 1..n : d.children[i].type = DiffModified
                   /\ ~SingleAddedEntry(d)

\* C10 witness: an element was put before the two of [x, y]
C10_Witness ==
    /\ Compared /\ HeadInsertion(result.root.left, result.root.right)
    /\ Len(result.root.left.children) = 2
    /\ result.root.right.children[1] # result.root.left.children[1]
    /\ result.summary = DiffSummary(1, 0, 3, 4)

----------------------------------------------------------------------------
(* Claims about value nodes *)

\* the DiffNodes of the result Compare returned
ResultNodes == NodesOf(result.root)

\* both sides of d are present and of kind k
BothOfKind(d, k) ==
    /\ d.left # NilNode /\ d.right # NilNode
    /\ d.left.kind = k /\ d.right.kind = k

\* C11: a DiffNode whose two sides are Scalar nodes is Modified exactly when
\* the two values differ as strings (case and whitespace count, the empty
\* string equals only itself), Unchanged otherwise, and has no children.
C11_ScalarsComparedExactly ==
    Compared =>
        \A i \in 1..Len(ResultNodes) :
            LET d == ResultNodes[i] IN
            BothOfKind(d, KindScalar) =>
                /\ d.type = (IF d.left.value # d.right.value THEN DiffModified ELSE DiffUnchanged)
                /\ d.children = <<>>

\* C11 witness: under a mapping key, "x" was compared with "x " and came
\* out Modified
C11_Witness ==
    /\ Compared
    /\ \E i \in 1..Len(ResultNodes) :
          LET d == ResultNodes[i] IN
          /\ BothOfKind(d, KindScalar)
          /\ d.path = "$.a"
          /\ d.left.value = "x" /\ d.right.value = "x "
          /\ d.type = DiffModified

\* C12: a DiffNode whose two sides are Alias nodes is Modified when the two
\* alias texts differ and Unchanged when they are equal.
C12_AliasesComparedByText ==
    Compared =>
        \A i \in 1..Len(ResultNodes) :
            LET d == ResultNodes[i] IN
            BothOfKind(d, KindAlias) =>
                d.type = (IF d.left.value # d.right.value THEN DiffModified ELSE DiffUnchanged)

\* both sides of d are present and their kinds differ
KindMismatch(d) ==
    /\ d.left # NilNode /\ d.right # NilNode
    /\ d.left.kind # d.right.kind

\* C13: two present nodes of different kinds (any pair among Document,
\* Mapping, Sequence, Scalar, Alias) give a DiffNode of type Modified with no
\* children that holds both nodes; Compare returns a result for them.
C13_KindMismatchIsModified ==
    /\ (pc = "compared" /\ left # NilNode /\ right # NilNode /\ left.kind # right.kind)
          => result.root = DiffNode(left, right, DiffModified, <<>>, "$")
    /\ Compared =>
          \A i \in 1..Len(ResultNodes) :
              LET d == ResultNodes[i] IN
              KindMismatch(d) => d.type = DiffModified /\ d.children = <<>>

\* C13 witness: a Document holding a mapping was compared with a bare
\* mapping that has children, and the root came out Modified and childless
C13_Witness ==
    /\ Compared
    /\ left.kind = KindDocument /\ Len(left.children) = 1
    /\ left.children[1].kind = KindMapping
    /\ right.kind = KindMapping /\ Len(right.children) > 0
    /\ result.root.type = DiffModified /\ result.root.children = <<>>
    /\ result.root.left = left /\ result.root.right = right

----------------------------------------------------------------------------
(* Claims about containers and one-sided subtrees *)

\* C14: a DiffNode whose two sides are both mappings or both sequences is
\* Modified when one of its children is not Unchanged and Unchanged when
\* none is; it is never Added or Removed.
C14_ContainerTypeFromChildren ==
    Compared =>
        \A i \in 1..Len(ResultNodes) :
            LET d == ResultNodes[i] IN
            (BothMappings(d) \/ BothSequences(d)) =>
                /\ d.type = (IF \E j \in 1..Len(d.children) : d.children[j].type # DiffUnchanged
                             THEN DiffModified ELSE DiffUnchanged)
                /\ d.type \notin {DiffAdded, DiffRemoved}

\* C14 witness: a Modified pair of sequences holds an Unchanged pair of
\* mappings next to a changed element
C14_Witness ==
    /\ Compared
    /\ BothSequences(result.root) /\ result.root.type = DiffModified
    /\ \E j \in 1..Len(result.root.children) :
          /\ BothMappings(result.root.children[j])
          /\ result.root.children[j].type = DiffUnchanged
    /\ \E j \in 1..Len(result.root.children) :
          result.root.children[j].type = DiffModified

\* exactly one side of d is present
OneSided(d) == (d.left = NilNode) # (d.right = NilNode)

\* how many DiffNodes of the result satisfy P
CountNodes(P(_)) == Cardinality({ i \in 1..Len(ResultNodes) : P(ResultNodes[i]) })

\* C15: a DiffNode with exactly one side present is Added (right present) or
\* Removed (left present) and has no children, whatever the size of the
\* present subtree; the summary counts it once: added and removed are the
\* numbers of such DiffNodes, and a tree compared with nothing gives one.
C15_OneSidedSubtreeIsOneLeaf ==
    Compared =>
        /\ \A i \in 1..Len(ResultNodes) :
              LET d == ResultNodes[i] IN
              OneSided(d) =>
                  /\ d.type = (IF d.left = NilNode THEN DiffAdded ELSE DiffRemoved)
                  /\ d.children = <<>>
        /\ result.summary.added = CountNodes(LAMBDA d : d.left = NilNode)
        /\ result.summary.removed = CountNodes(LAMBDA d : d.right = NilNode)
        /\ (left = NilNode) => result.summary = DiffSummary(1, 0, 0, 1)
        /\ (right = NilNode) => result.summary = DiffSummary(0, 1, 0, 1)

\* C15 witness: a key present only on the left holds a subtree with a child
\* of its own, and the summary counts one removal
C15_Witness ==
    /\ Compared
    /\ BothMappings(result.root)
    /\ \E j \in 1..Len(result.root.children) :
          LET d == result.root.children[j] IN
          /\ d.right = NilNode /\ d.left # NilNode
          /\ Len(d.left.children) > 0
          /\ d.type = DiffRemoved /\ d.children = <<>>
    /\ result.summary.removed = 1

----------------------------------------------------------------------------
(* Claims about Document nodes and paths *)

\* the single child of Document n, nil when it has none
OnlyChild(n) == IF n.children = <<>> THEN NilNode ELSE Head(n.children)

\* d has a Document node on one of its sides
HasDocumentSide(d) ==
    \/ d.left # NilNode /\ d.left.kind = KindDocument
    \/ d.right # NilNode /\ d.right.kind = KindDocument

\* C16: Compare of two Document nodes returns what Compare of their single
\* children returns (a Document without child passing nil), the root path
\* still "$", and no DiffNode of the result has a Document on either side.
C16_DocumentTransparent ==
    (pc = "compared" /\ left # NilNode /\ right # NilNode
       /\ left.kind = KindDocument /\ right.kind = KindDocument)
        => /\ result \in CompareResults(OnlyChild(left), OnlyChild(right), FALSE)
           /\ result.root # NilDiff => result.root.path = "$"
           /\ \A i \in 1..Len(ResultNodes) : ~HasDocumentSide(ResultNodes[i])

\* C16 witness: two Documents holding different mappings were compared and
\* the root DiffNode pairs the two mappings
C16_Witness ==
    /\ Compared
    /\ left.kind = KindDocument /\ right.kind = KindDocument
    /\ left.children # <<>> /\ right.children # <<>>
    /\ result.root.left = left.children[1] /\ result.root.right = right.children[1]
    /\ BothMappings(result.root)
    /\ result.root.type = DiffModified /\ result.root.children # <<>>

\* the bracketed index that ends the path of element i (counted from 0)
IndexSuffix == <<"[0]", "[1]", "[2]", "[3]", "[4]", "[5]">>

\* C17: the root DiffNode has path "$"; each child of a DiffNode that pairs
\* two mappings has the parent's path followed by "." and its key; child i of
\* a DiffNode that pairs two sequences has the parent's path followed by
\* "[i]"; at every depth.
C17_DiffPaths ==
    Compared =>
        /\ result.root.path = "$"
        /\ \A i \in 1..Len(ResultNodes) :
              LET d == ResultNodes[i] IN
              /\ BothMappings(d) =>
                    \A j \in 1..Len(d.children) :
                        d.children[j].path = d.path \o "." \o KeyOfDiff(d.children[j])
              /\ BothSequences(d) =>
                    \A j \in 1..Len(d.children) :
                        d.children[j].path = d.path \o IndexSuffix[j]

\* C17 witness: two depths down, the first element of the sequence under
\* key "b" is a changed scalar with path "$.b[0]"
C17_Witness ==
    /\ Compared
    /\ \E i \in 1..Len(ResultNodes) :
          /\ ResultNodes[i].path = "$.b[0]"
          /\ ResultNodes[i].type = DiffModified
          /\ BothOfKind(ResultNodes[i], KindScalar)


----------------------------------------------------------------------------
(* Claims about navigation, search and folding *)

\* C24: in a session on a non-empty document the cursor always indexes a
\* row of the visible list: 0 <= cursor <= len(flatNodes) - 1
C24_CursorValid ==
    pc = "session" /\ Len(flatNodes) > 0
        => cursor >= 0 /\ cursor <= Len(flatNodes) - 1


\* the steps that set the cursor and then call adjustOffset: moveCursor,
\* bottom, nextMatch, prevMatch and the confirmation of a search
CursorMoves ==
    \/ KeyUp \/ KeyDown \/ KeyPageUp \/ KeyPageDown \/ KeyHalfUp \/ KeyHalfDown
    \/ KeyBottom
    \/ Len(matches) > 0 /\ (KeyNextMatch \/ KeyPrevMatch \/ SearchEnter)

\* row c is one of the rows a viewport at offset off shows
InViewport(c, off) == off <= c /\ c <= off + viewportHeight(height) - 1

\* the step has changed the offset as little as the cursor allows
MinimalScroll ==
    offset' = IF InViewport(cursor', offset) THEN offset
              ELSE IF cursor' < offset THEN cursor'
              ELSE cursor' - viewportHeight(height) + 1

\* C25: after every cursor move, for every window height, the
\* cursor row is inside [offset, offset + viewportHeight - 1] and the offset
\* was changed minimally
C25_ScrollFollowsCursor ==
    [][Sized /\ CursorMoves => InViewport(cursor', offset') /\ MinimalScroll]_vars


\* the last key was taken by the search input and search(q) has run on
\* the non-empty text q it holds
JustSearched == searchMode /\ run.phase = "search" /\ searchInput # <<>>

\* the nodes of a sequence of nodes
Range(nodes) == { nodes[i] : i \in 1..Len(nodes) }

\* C26: immediately after search(q) with a non-empty q that has a match,
\* whatever was folded before, no ancestor of a matched node is collapsed
\* and every matched node is in the visible list
C26_SearchReveals ==
    JustSearched =>
        \A n \in Range(MatchedNodes(tree, searchInput)) :
            /\ \A a \in Ancestors(tree, n) : ~tree[a].collapsed
            /\ n \in Range(flatNodes)

\* a search has matched the element "aB", which was under the collapsed
\* mapping "Ab" and not in the visible list before
C26_Witness ==
    /\ JustSearched
    /\ Len(tree) = 6
    /\ 5 \in Range(MatchedNodes(tree, searchInput))
    /\ Range(run.nodes) = {2, 3, 6}
    /\ 5 \in Range(flatNodes)


\* the text holds q somewhere, the case of the letters ignored
HoldsIgnoringCase(text, q) ==
    \E at \in 0..(Len(text) - Len(q)) :
        \A j \in 1..Len(q) : LowerOf(text[at + j]) = LowerOf(q[j])

\* the key or the value of node n holds q, the case ignored
TextMatches(n, q) ==
    HoldsIgnoringCase(tree[n].key, q) \/ HoldsIgnoringCase(tree[n].value, q)

\* C27: immediately after search(q) with a non-empty q, matches is the
\* strictly increasing list of exactly the indices of the new visible list
\* whose node holds q in its key or value, case ignored; every such node of
\* the tree is among them, also one that was hidden before the search; and
\* matchIndex is 0
C27_SearchResultSet ==
    JustSearched =>
        /\ matchIndex = 0
        /\ \A i \in 1..(Len(matches) - 1) : matches[i] < matches[i + 1]
        /\ Range(matches) = { i \in 0..(Len(flatNodes) - 1) :
                                TextMatches(flatNodes[i + 1], searchInput) }
        /\ \A n \in DOMAIN tree :
              tree[n].kind # KindDocument /\ TextMatches(n, searchInput)
                  => \E i \in 1..Len(matches) : flatNodes[matches[i] + 1] = n

\* the search for "B" in the whole document, the mapping "Ab" collapsed
\* before: it has matched the keys "Ab" and "b" and the values "aB" and "B"
C27_Witness ==
    /\ JustSearched
    /\ searchInput = <<"B">>
    /\ Len(tree) = 6
    /\ Range(run.nodes) = {2, 3, 6}
    /\ matches = <<1, 2, 3, 4>>


\* C28: after a search and any toggle, collapseAll and expandAll that follow
\* it, every index in matches is a row of the current visible list and the
\* node on that row matches the query
C28_MatchesInSync ==
    pc = "session" =>
        \A i \in 1..Len(matches) :
            /\ matches[i] >= 0 /\ matches[i] <= Len(flatNodes) - 1
            /\ TextMatches(flatNodes[matches[i] + 1], searchInput)


\* the roots of the displayed tree: m.root and, when that is a Document,
\* the top-level node under it, which is the first row
DisplayedRoots(t) ==
    {Root} \cup (IF t[Root].kind = KindDocument /\ HasChildren(t, Root)
                 THEN {t[Root].children[1]} ELSE {})

\* C29: on every tree a session can be started on (a whole document or
\* the subtree a path query selects), collapseAll does not collapse the
\* root of the displayed tree and leaves every other container that has
\* children collapsed
C29_CollapseAllKeepsRoot ==
    [][KeyCollapseAll =>
          \A n \in DOMAIN tree :
              IF n \in DisplayedRoots(tree)
              THEN tree'[n].collapsed = tree[n].collapsed
              ELSE IsContainer(tree, n) /\ HasChildren(tree, n)
                       => tree'[n].collapsed]_vars

\* C30: after expandAll, from any fold state, the fold-aware flattening of
\* the tree (FlattenVisible) returns the same nodes in the same order as
\* the full flattening (Flatten)
C30_ExpandAllShowsAll ==
    run.phase = "expandAll" =>
        FlattenVisible(tree, Root) = Flatten(tree, Root)

\* expandAll on the whole document of which only the top-level mapping,
\* "Ab" and "c" were visible: all five rows are back
C30_Witness ==
    /\ run.phase = "expandAll"
    /\ Len(tree) = 6
    /\ run.nodes = <<2, 3, 6>>
    /\ flatNodes = <<2, 3, 4, 5, 6>>


\* i modulo k, for i from -1 on
Mod(i, k) == (i + k) % k

\* C31: with k >= 1 matches nextMatch moves matchIndex to
\* (matchIndex + 1) mod k and prevMatch to (matchIndex - 1) mod k, both set
\* the cursor to matches[matchIndex], and k nextMatch calls in a row are
\* back on the match they started from; with no matches both change nothing
C31_MatchCycling ==
    [][/\ KeyNextMatch =>
             IF Len(matches) = 0
             THEN UNCHANGED <<matchIndex, cursor, offset, matches>>
             ELSE /\ matchIndex' = Mod(matchIndex + 1, Len(matches))
                  /\ cursor' = matches[matchIndex' + 1]
                  /\ run'.n = Len(matches) => matchIndex' = run'.k
       /\ KeyPrevMatch =>
             IF Len(matches) = 0
             THEN UNCHANGED <<matchIndex, cursor, offset, matches>>
             ELSE /\ matchIndex' = Mod(matchIndex - 1, Len(matches))
                  /\ cursor' = matches[matchIndex' + 1]]_vars

\* four nextMatch calls in a row over the four matches of "B", started on
\* the third, are back on the third
C31_Witness ==
    /\ run.phase = "next" /\ run.n = 4 /\ run.k = 2
    /\ Len(matches) = 4 /\ matchIndex = 2 /\ cursor = matches[3]


----------------------------------------------------------------------------
(* Claims about the diff command *)

\* C32: the diff command exits with code 0 exactly when summary.total is
\* 0, with code 1 exactly when there are differences, and with a code
\* greater than 1 when a file cannot be opened or parsed
C32_ExitCodes ==
    pc = "exited" =>
        IF left = Unreadable \/ right = Unreadable
        THEN exitCode > 1
        ELSE /\ exitCode = 0 <=> result.summary.total = 0
             /\ exitCode = 1 <=> result.summary.total > 0


----------------------------------------------------------------------------
(* Claims about the parsed tree *)

\* the place of node n among the children of its parent
PlaceOf(n) ==
    CHOOSE i \in 1..Len(tree[tree[n].parent].children) :
        tree[tree[n].parent].children[i] = n

\* node n has the depth and path the rule gives it: one deeper than its
\* parent, the parent's path followed by its key or its index
DepthAndPathByRule(n) ==
    LET p == tree[tree[n].parent] IN
    /\ tree[n].depth = p.depth + 1
    /\ tree[n].path = Append(p.path, IF p.kind = KindMapping THEN tree[n].key
                                     ELSE Digits[PlaceOf(n)])

\* node n is owned by the node its parent reference points to, and by no
\* other
OwnedByParent(n) ==
    \A o \in DOMAIN tree :
        (\E i \in 1..Len(tree[o].children) : tree[o].children[i] = n)
            <=> o = tree[n].parent

\* C33: in every tree the YAML parser or the JSON decoder produces, the
\* root has depth 0, every other node has depth = its parent's depth + 1
\* and path = its parent's path followed by its key or index, and every
\* child's parent reference points to the node that owns it
C33_TreeConstruction ==
    pc = "parsed" =>
        /\ tree[Root].depth = 0
        /\ \A n \in DOMAIN tree \ {Root} : DepthAndPathByRule(n) /\ OwnedByParent(n)

\* C33, amended: the root (the Document node) and the top-level node under
\* it have depth 0 and the empty path; every node below has depth = its
\* parent's depth + 1 and path = its parent's path followed by its key or
\* index; every child's parent reference points to the node that owns it
C33_TreeConstructionBelowTopLevel ==
    pc = "parsed" =>
        /\ tree[Root].depth = 0 /\ tree[Root].path = <<>>
        /\ \A n \in DOMAIN tree \ {Root} :
              /\ OwnedByParent(n)
              /\ IF tree[n].parent = Root
                 THEN tree[n].depth = 0 /\ tree[n].path = <<>>
                 ELSE DepthAndPathByRule(n)

\* the document "a: [x]" is parsed: the element is at depth 2 with the
\* path a, 0
C33_Witness ==
    /\ pc = "parsed"
    /\ Len(tree) = 4
    /\ tree[4].kind = KindScalar /\ tree[4].depth = 2 /\ tree[4].path = <<"a", "0">>
    /\ tree[4].parent = 3 /\ tree[3].parent = 2


----------------------------------------------------------------------------
(* Claims about the handlers of the editing session *)

\* the undo stack one push leaves: the entry on top of what was there, the
\* oldest entry gone when that makes more than maxUndoStackSize
OnePushed(before, after, entry) ==
    /\ Len(after) >= 1
    /\ after[Len(after)] = entry
    /\ SubSeq(after, 1, Len(after) - 1) =
           (IF Len(before) < maxUndoStackSize THEN before ELSE Tail(before))

\* C34: confirmEdit with a new value that differs from the value captured
\* at startEdit pushes exactly one entry {node, old, new} on the undo
\* stack, empties the redo stack, sets the node's value and marks the node
\* dirty; with an equal value it leaves node values, both stacks and the
\* dirty state as they are; either way edit mode ends
C34_ConfirmEdit ==
    [][KeyEnter /\ editNode # NoNode =>
          /\ ~editMode'
          /\ IF editInput # originalValue
             THEN /\ OnePushed(undoStack, undoStack',
                               [Node |-> editNode, OldValue |-> originalValue,
                                NewValue |-> editInput])
                  /\ redoStack' = <<>>
                  /\ tree' = [tree EXCEPT ![editNode].value = editInput]
                  /\ editNode \in modifiedNodes' /\ modified'
             ELSE UNCHANGED <<tree, undoStack, redoStack, modified, modifiedNodes>>]_vars

\* an edit was confirmed on a full undo stack: the stack is still full, its
\* top entry is the edit, the redo stack is empty and the node is dirty
C34_Witness ==
    /\ pc = "session" /\ ~editMode /\ run.phase = "edit"
    /\ Len(undoStack) = maxUndoStackSize /\ redoStack = <<>>
    /\ run.n > maxUndoStackSize
    /\ tree[undoStack[Len(undoStack)].Node].value = undoStack[Len(undoStack)].NewValue
    /\ undoStack[Len(undoStack)].Node \in modifiedNodes /\ modified


\* the node on the cursor row
UnderCursor == flatNodes[cursor + 1]

\* C35: toggleFold flips the collapsed flag of the node under the cursor
\* if and only if it is a container with at least one child, and on a
\* scalar, an alias or an empty container changes nothing (fold flags,
\* visible list, cursor); the cursor stays on a toggled container, and
\* toggling it again gives back the fold flags and the visible list
C35_ToggleFold ==
    [][KeyToggle /\ cursor >= 0 /\ cursor < Len(flatNodes) =>
          IF tree[UnderCursor].kind \in {KindMapping, KindSequence, KindDocument}
             /\ Len(tree[UnderCursor].children) >= 1
          THEN /\ tree' = [tree EXCEPT ![UnderCursor].collapsed = ~@]
               /\ cursor' = cursor /\ flatNodes'[cursor' + 1] = UnderCursor
               /\ rebuildFlatList([tree' EXCEPT ![UnderCursor].collapsed = ~@])
                      = flatNodes
          ELSE UNCHANGED <<tree, flatNodes, cursor>>]_vars

\* the mapping "Ab" was toggled: it is collapsed, the cursor is on it and
\* the two rows under it are gone from the visible list
C35_Witness ==
    /\ run.phase = "toggle" /\ Len(tree) = 6
    /\ run.nodes = <<2, 3, 4, 5, 6>> /\ flatNodes = <<2, 3, 6>>
    /\ cursor = 1 /\ tree[3].collapsed


\* the value of every node
NodeValues(t) == [n \in DOMAIN t |-> t[n].value]

\* the collapsed flag of every node
FoldFlags(t) == [n \in DOMAIN t |-> t[n].collapsed]

\* C36: node values change only in confirmEdit, undo and redo; every
\* navigation, fold, search, resize and save event leaves all node values
\* and both history stacks unchanged; and startEdit, confirmEdit, undo,
\* redo and save never change a collapsed flag
C36_SingleWriter ==
    [][/\ NodeValues(tree') # NodeValues(tree) => KeyEnter \/ KeyUndo \/ KeyRedo
       /\ \/ WindowSize \/ KeyUp \/ KeyDown \/ KeyTop \/ KeyBottom
          \/ KeyToggle \/ KeyExpandAll \/ KeyCollapseAll
          \/ KeySearch \/ SearchTyped \/ SearchEnter \/ SearchEsc
          \/ KeyNextMatch \/ KeyPrevMatch \/ KeySave
          => NodeValues(tree') = NodeValues(tree) /\ UNCHANGED <<undoStack, redoStack>>
       /\ KeyEdit \/ KeyEnter \/ KeyUndo \/ KeyRedo \/ KeySave
          => FoldFlags(tree') = FoldFlags(tree)]_vars

\* the value was edited and saved, then the sequence was collapsed and a
\* search was confirmed: the edit is still on the undo stack and in the tree
C36_Witness ==
    /\ pc = "session" /\ Len(tree) = 4 /\ filename = "doc.yaml"
    /\ Len(undoStack) = 1 /\ tree[4].value = undoStack[1].NewValue
    /\ disk = Encode(tree) /\ tree[4].value # start[4]
    /\ tree[3].collapsed /\ matches # <<>> /\ ~searchMode


\* the nodes that are to be listed: no ancestor collapsed, not a Document
Listed(t) ==
    { n \in DOMAIN t :
        /\ t[n].kind # KindDocument
        /\ \A a \in Ancestors(t, n) : ~t[a].collapsed }

\* C37: after every input event the flattened list is the depth-first
\* pre-order sequence (the nodes are numbered in that order) of exactly
\* the nodes none of whose ancestors is collapsed, the Document omitted
C37_VisibleListConsistent ==
    pc = "session" =>
        /\ Range(flatNodes) = Listed(tree)
        /\ \A i \in 1..(Len(flatNodes) - 1) : flatNodes[i] < flatNodes[i + 1]

\* after collapseAll on the whole document: the collapsed mapping "Ab" is
\* listed, the sequence and the element under it are not
C37_Witness ==
    /\ run.phase = "collapseAll" /\ Len(tree) = 6
    /\ tree[3].collapsed /\ tree[4].collapsed
    /\ flatNodes = <<2, 3, 6>>


\* C38: the two dirty indicators agree in every state of the editing
\* session: modified is true exactly when modifiedNodes is non-empty
C38_DirtyIndicatorsAgree ==
    modified <=> modifiedNodes # {}


\* C39: in a writable session, whenever the scalar values in memory differ
\* from what the file holds (read at the start or written in full by the
\* last save), saveFile accepts a save request: it does not answer
\* "No changes to save"
C39_SaveAvailableWhenDiverged ==
    (~ReadOnly(filename) /\ disk.complete /\ ScalarValues(tree) # disk.values)
        => (modified \/ modifiedNodes # {})


----------------------------------------------------------------------------
(* Claims about the interactive diff view *)

\* the rows after the cursor whose DiffNode is not Unchanged
ChangedAfter ==
    { i \in (cursor + 1)..(Len(flatNodes) - 1) : flatNodes[i + 1].type # DiffUnchanged }

\* the rows before the cursor whose DiffNode is not Unchanged
ChangedBefore ==
    { i \in 0..(cursor - 1) : flatNodes[i + 1].type # DiffUnchanged }

\* C40: nextDiff moves the cursor to the smallest row after it whose
\* DiffNode is not Unchanged, prevDiff to the largest such row before it;
\* when there is none, cursor and offset stay (no wrap-around); and after
\* every event the cursor is within 0 .. max(0, rows - 1)
C40_DiffNavigation ==
    [][ /\ ViewNextDiff =>
             IF ChangedAfter = {}
             THEN cursor' = cursor /\ offset' = offset
             ELSE /\ cursor' \in ChangedAfter
                  /\ \A i \in ChangedAfter : cursor' <= i
        /\ ViewPrevDiff =>
             IF ChangedBefore = {}
             THEN cursor' = cursor /\ offset' = offset
             ELSE /\ cursor' \in ChangedBefore
                  /\ \A i \in ChangedBefore : cursor' >= i
        /\ cursor' >= 0
        /\ cursor' <= (IF Len(flatNodes') > 1 THEN Len(flatNodes') - 1 ELSE 0)
      ]_vars

\* nextDiff went from row 0 over the unchanged row 1 to the changed row 2
C40_Witness ==
    /\ run.phase = "nextDiff" /\ run.n = 0
    /\ cursor = 2
    /\ flatNodes[2].type = DiffUnchanged
    /\ flatNodes[3].type # DiffUnchanged

====
